---- MODULE Spec2Model ----
(***************************************************************************)
(* Model of the health-alert dashboard: the alert store, the               *)
(* categorization client and its post-processing, the bulk sweep, the      *)
(* ticket notifier, the chat notifier and the insights aggregator.         *)
(*                                                                         *)
(* Texts are sequences of characters (one-character strings); a fixed      *)
(* message of the program that no code inspects is one opaque chunk.       *)
(***************************************************************************)
EXTENDS Integers, Sequences, FiniteSets, TLC

VARIABLES
    cz_in,      \* categorize_health_alert: the call's inputs (alert category, agent, raw result)
    cz_out,     \* categorize_health_alert: the returned categorization, or NoValue before the call
    alerts,     \* the health_alerts table: id -> row, or NoRow
    next_id,    \* the next value of the auto-increment primary key
    agent,      \* ai_service.agent is set (an inference key was found and the agent built)
    req,        \* the requests in progress: each with its own database session
    jira_env,   \* which of JIRA_API_TOKEN, JIRA_DOMAIN, JIRA_EMAIL the environment sets
    jira_created, \* per alert, the tickets the tracker has created for it
    jira_log,   \* per alert, the finished create_jira_ticket_for_alert calls, in order
    jira_calls, \* the number of create_jira_ticket_for_alert calls made so far
    slack_key,  \* SLACK_API_KEY is set in the environment
    slack_delivered, \* per alert, the messages the chat service accepted
    slack_log,  \* the last send_alert_notification call: its alert, result and posts
    slack_calls, \* the number of send_alert_notification calls made so far
    ins_env,    \* which of the inference key and the app name the environment sets
    now,        \* datetime.now(), in steps of 450 seconds
    ins_log,    \* the finished get_ai_insights calls, in order
    ins_last,   \* the remote response the last get_ai_insights call received
    db_session  \* per request, the session get_db opened for it and where get_db stands

storeVars == <<alerts, next_id, req>>
czVars == <<cz_in, cz_out>>
jiraVars == <<jira_env, jira_created, jira_log, jira_calls>>
slackVars == <<slack_key, slack_delivered, slack_log, slack_calls>>
insVars == <<ins_env, now, ins_log, ins_last>>
vars == <<cz_in, cz_out, alerts, next_id, agent, req, jira_env, jira_created, jira_log, jira_calls,
          slack_key, slack_delivered, slack_log, slack_calls,
          ins_env, now, ins_log, ins_last, db_session>>

(***************************************************************************)
(* Texts                                                                   *)
(***************************************************************************)
UpperChars == <<"A", "B", "C", "D", "E", "F", "G", "H", "I", "J", "K", "L", "M", "N", "O", "P", "Q", "R", "S", "T", "U", "V", "W", "X", "Y", "Z">>
LowerChars == <<"a", "b", "c", "d", "e", "f", "g", "h", "i", "j", "k", "l", "m", "n", "o", "p", "q", "r", "s", "t", "u", "v", "w", "x", "y", "z">>
Digits == {"0", "1", "2", "3", "4", "5", "6", "7", "8", "9"}

\* Python None in a place that otherwise holds a text
NULL == <<"<None>">>

\* str.lower on one character
LowerCh(c) ==
    IF \E i \in 1..Len(UpperChars) : UpperChars[i] = c
    THEN LowerChars[CHOOSE i \in 1..Len(UpperChars) : UpperChars[i] = c]
    ELSE c

\* str.lower
Lower(s) == [i \in 1..Len(s) |-> LowerCh(s[i])]

\* the regex class \s
IsSpace(c) == c \in {" ", "\n", "\t", "\r"}

\* the regex class \w
IsWord(c) ==
    \/ \E i \in 1..Len(UpperChars) : UpperChars[i] = c \/ LowerChars[i] = c
    \/ c \in Digits
    \/ c = "_"

\* str.strip
Strip(s) ==
    LET keep == {i \in 1..Len(s) : ~IsSpace(s[i])}
    IN  IF keep = {} THEN <<>>
        ELSE LET lo == CHOOSE i \in keep : \A j \in keep : i <= j
                 hi == CHOOSE i \in keep : \A j \in keep : j <= i
             IN  SubSeq(s, lo, hi)

\* Python's `sub in s` on strings
Contains(s, sub) ==
    \E i \in 1..(Len(s) - Len(sub) + 1) : SubSeq(s, i, i + Len(sub) - 1) = sub

\* the smallest element of a non-empty set of integers
Min(S) == CHOOSE x \in S : \A y \in S : x <= y
\* the largest element of a non-empty set of integers
Max(S) == CHOOSE x \in S : \A y \in S : y <= x

S_configuration == <<"c", "o", "n", "f", "i", "g", "u", "r", "a", "t", "i", "o", "n">>
S_security == <<"s", "e", "c", "u", "r", "i", "t", "y">>
S_performance == <<"p", "e", "r", "f", "o", "r", "m", "a", "n", "c", "e">>
S_data == <<"d", "a", "t", "a">>
S_integration == <<"i", "n", "t", "e", "g", "r", "a", "t", "i", "o", "n">>
S_compliance == <<"c", "o", "m", "p", "l", "i", "a", "n", "c", "e">>
S_code == <<"c", "o", "d", "e">>
S_user_experience == <<"u", "s", "e", "r", " ", "e", "x", "p", "e", "r", "i", "e", "n", "c", "e">>
S_Configuration == <<"C", "o", "n", "f", "i", "g", "u", "r", "a", "t", "i", "o", "n">>
S_Security == <<"S", "e", "c", "u", "r", "i", "t", "y">>
S_Data == <<"D", "a", "t", "a">>
S_Code == <<"C", "o", "d", "e">>
S_low == <<"l", "o", "w">>
S_medium == <<"m", "e", "d", "i", "u", "m">>
S_high == <<"h", "i", "g", "h">>
S_critical == <<"c", "r", "i", "t", "i", "c", "a", "l">>

\* the order of the list matters: the first standard category contained in the text wins
standard_categories ==
    <<S_configuration, S_security, S_performance, S_data,
      S_integration, S_compliance, S_code, S_user_experience>>

PRIORITIES == {S_low, S_medium, S_high, S_critical}

\* the raw categories of the monitoring systems
HealthCategory == {"optimizer", "security", "limits", "event", "stability", "portal", "exceptions"}

(***************************************************************************)
(* Categorization client                                                   *)
(***************************************************************************)
\* a value that passes pydantic's `str` validation / one that does not
StrVal(s) == [str |-> TRUE, v |-> s]
NotStr == [str |-> FALSE, v |-> NULL]

HealthAlertCategorization(c, p, s, r) ==
    [category |-> c, priority |-> p, summary |-> s, recommendation |-> r]

get_default_categorization(error_message) ==
    HealthAlertCategorization(
        S_Configuration,
        S_medium,
        <<"AI categorization unavailable">>
            \o (IF error_message # <<>> THEN <<". Error: ">> \o error_message ELSE <<>>),
        <<"Please configure the AI service with a valid API key">>)

DEFAULT_CATEGORIZATIONS ==
    [c \in {"security", "limits", "exceptions"} |->
        CASE c = "security" ->
                HealthAlertCategorization(S_Security, S_high,
                    <<"Security alert requiring immediate attention.">>,
                    <<"Review security settings and recent changes.">>)
          [] c = "limits" ->
                HealthAlertCategorization(S_Data, S_medium,
                    <<"System approaching defined resource limits.">>,
                    <<"Review resource usage and optimize configurations.">>)
          [] c = "exceptions" ->
                HealthAlertCategorization(S_Code, S_medium,
                    <<"Application code exceptions detected.">>,
                    <<"Debug error logs and fix application issues.">>)]

\* the mutant of CategoryFallback: the table of category-specific entries is not used
CategoryFallbackWithoutTable(alert_category, error_message) ==
    get_default_categorization(error_message)

\* "use category-specific fallback if available", else the default with the message
CategoryFallback(alert_category, error_message) ==
    IF alert_category \in DOMAIN DEFAULT_CATEGORIZATIONS
    THEN DEFAULT_CATEGORIZATIONS[alert_category]
    ELSE get_default_categorization(error_message)

LabelCategory == <<"*", "*", "C", "a", "t", "e", "g", "o", "r", "y", ":", "*", "*">>
LabelPriority == <<"*", "*", "P", "r", "i", "o", "r", "i", "t", "y", ":", "*", "*">>
LabelSummary == <<"*", "*", "S", "u", "m", "m", "a", "r", "y", ":", "*", "*">>
LabelRecommendation == <<"*", "*", "R", "e", "c", "o", "m", "m", "e", "n", "d", "a", "t", "i", "o", "n", ":", "*", "*">>

\* the label matches at position i, ignoring case
LabelAt(text, i, label) ==
    /\ i + Len(label) - 1 <= Len(text)
    /\ \A k \in 1..Len(label) : LowerCh(text[i + k - 1]) = LowerCh(label[k])

\* the first position at or after j that holds no whitespace (Len + 1 when none)
SkipSpace(text, j) ==
    Min({p \in j..(Len(text) + 1) : p = Len(text) + 1 \/ ~IsSpace(text[p])})

\* the end of the longest run of characters satisfying the class from position p on
WordEnd(text, p) ==
    Max({q \in p..Len(text) : \A k \in p..q : IsWord(text[k])})
LineEnd(text, p) ==
    Max({q \in p..Len(text) : \A k \in p..q : text[k] # "\n"})

\* re.search(label \s* (\w+), text, IGNORECASE): the group of the leftmost match, or NULL
SearchWord(text, label) ==
    LET hits == {i \in 1..Len(text) :
                    /\ LabelAt(text, i, label)
                    /\ LET p == SkipSpace(text, i + Len(label))
                       IN  p <= Len(text) /\ IsWord(text[p])}
    IN  IF hits = {} THEN NULL
        ELSE LET p == SkipSpace(text, Min(hits) + Len(label))
             IN  SubSeq(text, p, WordEnd(text, p))

\* where ([^\n]+) starts after \s* has backtracked as little as needed: the last
\* position of the whitespace run (or the one after it) that holds a non-newline
LineStarts(text, j) ==
    {q \in j..SkipSpace(text, j) : q <= Len(text) /\ text[q] # "\n"}

\* re.search(label \s* ([^\n]+), text, IGNORECASE): the group of the leftmost match, or NULL
SearchLine(text, label) ==
    LET hits == {i \in 1..Len(text) :
                    LabelAt(text, i, label) /\ LineStarts(text, i + Len(label)) # {}}
    IN  IF hits = {} THEN NULL
        ELSE LET q == Max(LineStarts(text, Min(hits) + Len(label)))
             IN  SubSeq(text, q, LineEnd(text, q))

\* match.group(1) if match else default
OrDefault(group, default) == IF group = NULL THEN default ELSE group

\* dict.get(key, default)
DictGet(d, key, default) == IF key \in DOMAIN d THEN d[key] ELSE StrVal(default)

\* HealthAlertCategorization(...) built from a dict: pydantic raises ValidationError
\* unless the four values are strings; Raised stands for the exception
Raised == [raised |-> TRUE]

FromDict(d) ==
    LET c == DictGet(d, "category", S_Configuration)
        p == DictGet(d, "priority", S_medium)
        s == DictGet(d, "summary", <<"Analysis completed.">>)
        r == DictGet(d, "recommendation", <<"Review alert details.">>)
    IN  IF c.str /\ p.str /\ s.str /\ r.str
        THEN HealthAlertCategorization(c.v, p.v, s.v, r.v)
        ELSE Raised

\* the AgentRunResult branch: the four labelled fields of the free text
FromOutput(result_text) ==
    HealthAlertCategorization(
        OrDefault(SearchWord(result_text, LabelCategory), S_Configuration),
        OrDefault(SearchWord(result_text, LabelPriority), S_medium),
        OrDefault(SearchLine(result_text, LabelSummary), <<"Analysis completed.">>),
        OrDefault(SearchLine(result_text, LabelRecommendation), <<"Review alert details.">>))

SummaryLimit == 200

\* raw_result[:200] if len(raw_result) > 200 else raw_result
Truncate(s) == IF Len(s) > SummaryLimit THEN SubSeq(s, 1, SummaryLimit) ELSE s

\* the outer `except Exception` of categorize_health_alert
CatchAll(alert_category, x) ==
    IF x = Raised THEN CategoryFallback(alert_category, <<"Error: ">>) ELSE x

\* categorize_health_alert(alert): agent_ok is the module-level `agent`, raw is what
\* the awaited agent.run produced (a value, a timeout or an exception)
categorize_health_alert(alert_category, agent_ok, raw) ==
    IF ~agent_ok
    THEN CategoryFallback(alert_category, <<"AI agent not available">>)
    ELSE CatchAll(alert_category,
        CASE raw.kind = "timeout" ->
                CategoryFallback(alert_category, <<"Request timed out">>)
          [] raw.kind = "raise" -> Raised
          [] raw.kind = "dict" -> FromDict(raw.d)
          [] raw.kind = "obj" ->
                IF raw.output.str
                THEN FromOutput(raw.output.v)
                ELSE get_default_categorization(<<"Error parsing response: ">>)
          [] raw.kind = "str" ->
                IF raw.json.kind = "invalid"
                THEN HealthAlertCategorization(S_Configuration, S_medium, Truncate(raw.text),
                        <<"Review alert details and take appropriate action.">>)
                ELSE IF raw.json.kind = "dict" THEN FromDict(raw.json.d)
                ELSE Raised
          [] OTHER ->
                CategoryFallback(alert_category, <<"Unexpected response type: ">>))

(***************************************************************************)
(* What the remote model can answer                                        *)
(***************************************************************************)
S_User_Experience == <<"U", "s", "e", "r", " ", "E", "x", "p", "e", "r", "i", "e", "n", "c", "e">>
S_Networking == <<"N", "e", "t", "w", "o", "r", "k", "i", "n", "g">>
S_Security_issue == <<"S", "e", "c", "u", "r", "i", "t", "y", " ", "i", "s", "s", "u", "e">>
S_DATA_padded == <<" ", "D", "A", "T", "A", " ">>
S_High == <<"H", "i", "g", "h">>
S_urgent == <<"u", "r", "g", "e", "n", "t">>

\* a reply in the format the prompt asks for, one field per line
Labelled(c, p) ==
    LabelCategory \o <<" ">> \o c \o <<"\n">> \o LabelPriority \o <<" ">> \o p \o <<"\n">>
        \o LabelSummary \o <<" ", "x", "\n">> \o LabelRecommendation \o <<" ", "y">>

\* the same reply on a single line
OneLine(c, p) ==
    LabelCategory \o <<" ">> \o c \o <<" ">> \o LabelPriority \o <<" ">> \o p \o <<" ">>
        \o LabelSummary \o <<" ", "x", " ">> \o LabelRecommendation \o <<" ", "y">>

AgentRunResult(text) == [kind |-> "obj", output |-> StrVal(text)]

\* replies with the labelled format
LabelledResults ==
    {AgentRunResult(Labelled(c, p)) :
        c \in {S_Data, S_User_Experience, S_Networking, S_Security_issue},
        p \in {S_low, S_critical, S_High, S_urgent}}
    \cup {AgentRunResult(OneLine(S_Data, S_high))}

\* replies without (all of) the labels, labels in another case, labels without a value
UnlabelledResults ==
    {AgentRunResult(<<>>),
     AgentRunResult(<<"o", "k">>),
     AgentRunResult(Lower(LabelCategory) \o <<" ">> \o S_code),
     AgentRunResult(LabelCategory \o <<" ", "\n">> \o LabelSummary \o <<" ", "\n">>),
     [kind |-> "obj", output |-> NotStr]}

\* structured replies: a dict, with keys missing, empty or ill-typed values
DictResults ==
    {[kind |-> "dict", d |-> d] :
        d \in {<<>>,
               [category |-> StrVal(S_DATA_padded), priority |-> StrVal(S_high),
                summary |-> StrVal(<<"x">>), recommendation |-> StrVal(<<"y">>)],
               [category |-> StrVal(S_Networking), priority |-> StrVal(S_urgent)],
               [category |-> StrVal(<<>>), priority |-> StrVal(<<>>),
                summary |-> StrVal(<<>>), recommendation |-> StrVal(<<>>)],
               [category |-> NotStr]}}

\* string replies, each with what json.loads makes of it
StringResults ==
    {[kind |-> "str", text |-> <<>>, json |-> [kind |-> "invalid"]],
     [kind |-> "str", text |-> <<"o", "k">>, json |-> [kind |-> "invalid"]],
     [kind |-> "str", text |-> <<"[", "]">>, json |-> [kind |-> "list"]],
     [kind |-> "str", text |-> <<"{", "}">>, json |-> [kind |-> "dict", d |-> <<>>]],
     [kind |-> "str", text |-> <<"{", "category", "}">>,
      json |-> [kind |-> "dict", d |-> [category |-> StrVal(S_Security_issue)]]]}

\* no reply: the 30 s timeout, an exception of the call, a value of another type
NoResults == {[kind |-> "timeout"], [kind |-> "raise"], [kind |-> "other"]}

RawResults == LabelledResults \cup UnlabelledResults \cup DictResults \cup StringResults \cup NoResults

(***************************************************************************)
(* The categorization client alone: one call on arbitrary inputs           *)
(***************************************************************************)
NoValue == [none |-> TRUE]

(***************************************************************************)
(* The alert store and the requests working on it                          *)
(***************************************************************************)
MaxAlerts == 2
NumReq == 2

Ids == 1..MaxAlerts
Requests == 1..NumReq

NoRow == [absent |-> TRUE]

\* the values of the nullable Boolean column is_resolved: True, False, and NULL for None
\* (slack_alert_sent is kept a boolean: no request modelled here sets it to None)
\* a datetime value of a timestamp column (NULL when not set), and its time
DateTime(t) == <<"datetime", t>>
TimeOf(datetime) == datetime[2]

PyTrue == <<"True">>
PyFalse == <<"False">>

\* the mutant of NewAlert: raw_data is not stored
NewAlertWithoutRawData(alert_data, t) ==
    [title |-> alert_data.title, description |-> alert_data.description,
     category |-> alert_data.category, source_system |-> alert_data.source_system,
     raw_data |-> NULL,
     created_at |-> DateTime(t), updated_at |-> NULL,
     ai_category |-> NULL, ai_priority |-> NULL, ai_summary |-> NULL,
     ai_recommendation |-> NULL,
     is_resolved |-> PyFalse, jira_ticket_id |-> NULL, slack_alert_sent |-> FALSE]

\* the row create_alert inserts for a HealthAlertCreate body at time t: the body's five
\* fields, created_at from the server default, the column defaults of database/models.py
NewAlert(alert_data, t) ==
    [title |-> alert_data.title, description |-> alert_data.description,
     category |-> alert_data.category, source_system |-> alert_data.source_system,
     raw_data |-> alert_data.raw_data,
     created_at |-> DateTime(t), updated_at |-> NULL,
     ai_category |-> NULL, ai_priority |-> NULL, ai_summary |-> NULL,
     ai_recommendation |-> NULL,
     is_resolved |-> PyFalse, jira_ticket_id |-> NULL, slack_alert_sent |-> FALSE]

\* a HealthAlertCreate body of the given category
AlertData(category) ==
    [title |-> <<"title">>, description |-> <<"description">>, category |-> category,
     source_system |-> <<"source">>, raw_data |-> NULL]

\* the row create_alert inserts now for a body of the given category
NewRow(category) == NewAlert(AlertData(category), now)

Columns == DOMAIN NewAlert(AlertData("optimizer"), 0)

\* the columns declared nullable=False
NotNullColumns == {"title", "description", "category", "source_system"}

\* db.query(DBHealthAlert).filter(DBHealthAlert.id == alert_id).first() is not None
Exists(id) == id \in Ids /\ alerts[id] # NoRow

\* SchemaHealthAlert.model_validate(row) passes: category and ai_priority are enum
\* members, is_resolved and slack_alert_sent are booleans
SchemaValid(row) ==
    /\ row.category \in HealthCategory
    /\ row.ai_priority = NULL \/ row.ai_priority \in PRIORITIES
    /\ row.is_resolved \in {PyTrue, PyFalse}
    /\ row.slack_alert_sent \in BOOLEAN

\* the UPDATE a commit flushes: the columns whose value differs from the loaded one
\* are written to the row as it is now, the others are left as they are; an UPDATE
\* that does not name updated_at sets it to now() (onupdate); without a changed
\* column no UPDATE is sent
Flush(current, loaded, new) ==
    LET changed == {f \in Columns : new[f] # loaded[f]}
    IN  [f \in Columns |->
            IF f \in changed THEN new[f]
            ELSE IF f = "updated_at" /\ changed # {} THEN DateTime(now)
            ELSE current[f]]

\* a request slot: no request, or one suspended at its await, or one that has returned;
\* committed keeps the number of commits the request has made
IdleReq ==
    [op |-> "none", pc |-> "idle", id |-> 0, loaded |-> NoRow, queue |-> <<>>,
     count |-> 0, result |-> "none", cause |-> "none", committed |-> 0]

Done(op, id, result, count) ==
    [op |-> op, pc |-> "done", id |-> id, loaded |-> NoRow, queue |-> <<>>,
     count |-> count, result |-> result, cause |-> "none", committed |-> 0]

Await(op, id, loaded, queue, count) ==
    [op |-> op, pc |-> "await", id |-> id, loaded |-> loaded, queue |-> queue,
     count |-> count, result |-> "none", cause |-> "none", committed |-> 0]

\* no request holds a session
NoSession ==
    [pc |-> "none", pending |-> FALSE, thrown |-> "none", closes |-> 0,
     rolled_back |-> FALSE, pending_at_close |-> FALSE]

StoreInit ==
    /\ alerts = [id \in Ids |-> NoRow]
    /\ next_id = 1
    /\ req = [r \in Requests |-> IdleReq]
    /\ db_session = [r \in Requests |-> NoSession]

JiraIdle ==
    /\ jira_env = [api_token |-> FALSE, domain |-> FALSE, email |-> FALSE]
    /\ jira_created = [id \in Ids |-> 0]
    /\ jira_log = [id \in Ids |-> <<>>]
    /\ jira_calls = 0

SlackIdle ==
    /\ slack_key = FALSE
    /\ slack_delivered = [id \in Ids |-> 0]
    /\ slack_log = NoValue
    /\ slack_calls = 0

InsIdle ==
    /\ ins_env = [api_key |-> FALSE, app_name |-> FALSE]
    /\ now = 0
    /\ ins_log = <<>>
    /\ ins_last = NoValue

CzIdle ==
    /\ cz_in = [category |-> "optimizer", agent |-> FALSE, raw |-> [kind |-> "other"]]
    /\ cz_out = NoValue

\* the raw categories alerts are created with: one with a category-specific fallback,
\* one without
CreateCategories == {"security", "optimizer"}

\* create_alert
create_alert(category) ==
    /\ next_id <= MaxAlerts
    /\ alerts' = [alerts EXCEPT ![next_id] = NewRow(category)]
    /\ next_id' = next_id + 1

\* delete_alert on a stored alert
delete_alert(id) ==
    /\ Exists(id)
    /\ alerts' = [alerts EXCEPT ![id] = NoRow]
    /\ UNCHANGED next_id

\* a new request takes the first free slot (the slots are only names of requests)
FreeSlot(r) ==
    /\ req[r].pc = "idle"
    /\ \A q \in 1..(r - 1) : req[q].pc # "idle"

\* the response is sent and get_db closes the session
Return(r) ==
    /\ req[r].pc = "done"
    /\ req' = [req EXCEPT ![r] = IdleReq]

(***************************************************************************)
(* Orchestrator: categorize_alert and categorize_all_uncategorized         *)
(***************************************************************************)
\* the position of the first standard category contained in the text, 0 when none
FirstContained(category) ==
    IF \E i \in 1..Len(standard_categories) : Contains(category, standard_categories[i])
    THEN Min({i \in 1..Len(standard_categories) : Contains(category, standard_categories[i])})
    ELSE 0

\* categorize_alert's clean-up of the model's category: strip, lower, exact match,
\* then the first standard category the text contains, then "configuration"
NormalizeCategory(raw_category) ==
    LET category == Lower(Strip(raw_category))
    IN  IF \E i \in 1..Len(standard_categories) : standard_categories[i] = category
        THEN category
        ELSE IF FirstContained(category) # 0
             THEN standard_categories[FirstContained(category)]
             ELSE S_configuration

\* the category categorize_all_uncategorized stores: ai_result.category as returned
SweepCategory(raw_category) == raw_category

\* the answers of the remote model the store-level specifications draw from
StoreReplies ==
    {AgentRunResult(Labelled(S_User_Experience, S_critical)),
     AgentRunResult(Labelled(S_Security_issue, S_High)),
     [kind |-> "timeout"]}

\* categorize_health_alert on every input the store-level specifications use, computed
\* once: [category, agent, raw] -> the categorization
AiResult ==
    [c \in CreateCategories, a \in BOOLEAN, raw \in StoreReplies |->
        categorize_health_alert(c, a, raw)]

\* the row with the four ai_* attributes assigned
WithAi(row, category, ai) ==
    [row EXCEPT !.ai_category = category, !.ai_priority = ai.priority,
                !.ai_summary = ai.summary, !.ai_recommendation = ai.recommendation,
                !.updated_at = DateTime(now)]

\* categorize_alert up to its await: query, not-found check, model_validate
CategorizeEnter(r, id) ==
    IF ~Exists(id) THEN Done("categorize", id, "not_found", 0)
    ELSE IF ~SchemaValid(alerts[id]) THEN Done("categorize", id, "raised", 0)
    ELSE Await("categorize", id, alerts[id], <<>>, 0)

categorize_alert_start(r, id) ==
    /\ FreeSlot(r)
    /\ req' = [req EXCEPT ![r] = CategorizeEnter(r, id)]
    /\ UNCHANGED <<alerts, next_id>>

\* the mutant of categorize_alert_finish: the commit writes the row whether or not it
\* is still stored
categorize_alert_finish_upsert(r, raw) ==
    /\ req[r].pc = "await" /\ req[r].op = "categorize"
    /\ LET id == req[r].id
           loaded == req[r].loaded
           ai == AiResult[loaded.category, agent, raw]
           row == WithAi(loaded, NormalizeCategory(ai.category), ai)
       IN  /\ alerts' = [alerts EXCEPT ![id] = row]
           /\ req' = [req EXCEPT ![r] =
                    Done("categorize", id, IF SchemaValid(row) THEN "ok" ELSE "raised", 0)]
    /\ UNCHANGED next_id

\* categorize_alert from the answer of the remote call on: normalize, assign, commit,
\* refresh, model_validate; a commit on a row that is gone raises and is rolled back
categorize_alert_finish(r, raw) ==
    /\ req[r].pc = "await" /\ req[r].op = "categorize"
    /\ LET id == req[r].id
           loaded == req[r].loaded
           ai == AiResult[loaded.category, agent, raw]
           new == WithAi(loaded, NormalizeCategory(ai.category), ai)
       IN  IF ~Exists(id)
           THEN /\ req' = [req EXCEPT ![r] = Done("categorize", id, "raised", 0)]
                /\ UNCHANGED alerts
           ELSE LET row == Flush(alerts[id], loaded, new)
                IN  /\ alerts' = [alerts EXCEPT ![id] = row]
                    /\ req' = [req EXCEPT ![r] =
                            Done("categorize", id,
                                 IF SchemaValid(row) THEN "ok" ELSE "raised", 0)]
    /\ UNCHANGED next_id

\* POST /alerts/create-and-categorize up to the await inside categorize_alert
create_and_categorize_start(r, category) ==
    /\ FreeSlot(r)
    /\ create_alert(category)
    /\ req' = [req EXCEPT ![r] = Await("categorize", next_id, NewRow(category), <<>>, 0)]

\* the ids of the rows with ai_category IS NULL, in id order
Uncategorized ==
    LET S == {id \in Ids : Exists(id) /\ alerts[id].ai_category = NULL}
        F[T \in SUBSET S] ==
            IF T = {} THEN <<>> ELSE <<Min(T)>> \o F[T \ {Min(T)}]
    IN  F[S]

\* the sweep's loop head for the rest of the list, on the table as the step leaves it:
\* model_validate reloads the expired row; a row that is gone or does not validate
\* raises outside the inner try, and the outer except returns 0 with the rest of the
\* list (kept in queue) left as it is
SweepNext(table, rest, count, committed) ==
    IF rest = <<>>
    THEN [Done("sweep", 0, "returned", count) EXCEPT !.committed = committed]
    ELSE IF table[Head(rest)] = NoRow \/ ~SchemaValid(table[Head(rest)])
         THEN [Done("sweep", Head(rest), "returned", 0) EXCEPT
                    !.committed = committed, !.queue = rest]
         ELSE [Await("sweep", Head(rest), table[Head(rest)], rest, count) EXCEPT
                    !.committed = committed]

categorize_all_uncategorized_start(r) ==
    /\ FreeSlot(r)
    /\ req' = [req EXCEPT ![r] = SweepNext(alerts, Uncategorized, 0, 0)]
    /\ UNCHANGED <<alerts, next_id>>

\* one turn of the sweep's loop from the answer of the remote call on: assign the
\* attributes, count, commit (rolled back when the row is gone), then the next loop head
categorize_all_uncategorized_step(r, raw) ==
    /\ req[r].pc = "await" /\ req[r].op = "sweep"
    /\ LET id == req[r].id
           loaded == req[r].loaded
           ai == AiResult[loaded.category, agent, raw]
           new == WithAi(loaded, SweepCategory(ai.category), ai)
           table == IF Exists(id)
                    THEN [alerts EXCEPT ![id] = Flush(alerts[id], loaded, new)]
                    ELSE alerts
       IN  /\ alerts' = table
           /\ req' = [req EXCEPT ![r] =
                    SweepNext(table, Tail(req[r].queue), req[r].count + 1,
                              req[r].committed + (IF Exists(id) THEN 1 ELSE 0))]
    /\ UNCHANGED next_id

InitCat ==
    /\ StoreInit /\ CzIdle /\ JiraIdle /\ SlackIdle /\ InsIdle
    /\ agent \in BOOLEAN

NextCat ==
    \/ \E c \in CreateCategories : create_alert(c) /\ UNCHANGED <<req, agent, db_session, czVars, jiraVars, slackVars, insVars>>
    \/ \E id \in Ids : delete_alert(id) /\ UNCHANGED <<req, agent, db_session, czVars, jiraVars, slackVars, insVars>>
    \/ \E r \in Requests, id \in Ids :
            categorize_alert_start(r, id) /\ UNCHANGED <<agent, db_session, czVars, jiraVars, slackVars, insVars>>
    \/ \E r \in Requests, raw \in StoreReplies :
            categorize_alert_finish(r, raw) /\ UNCHANGED <<agent, db_session, czVars, jiraVars, slackVars, insVars>>
    \/ \E r \in Requests, c \in CreateCategories :
            create_and_categorize_start(r, c) /\ UNCHANGED <<agent, db_session, czVars, jiraVars, slackVars, insVars>>
    \/ \E r \in Requests :
            categorize_all_uncategorized_start(r) /\ UNCHANGED <<agent, db_session, czVars, jiraVars, slackVars, insVars>>
    \/ \E r \in Requests, raw \in StoreReplies :
            categorize_all_uncategorized_step(r, raw) /\ UNCHANGED <<agent, db_session, czVars, jiraVars, slackVars, insVars>>
    \/ \E r \in Requests :
            Return(r) /\ UNCHANGED <<alerts, next_id, agent, db_session, czVars, jiraVars, slackVars, insVars>>

SpecCat == InitCat /\ [][NextCat]_vars

StandardCategories == {standard_categories[i] : i \in 1..Len(standard_categories)}

\* C3: after any categorization operations, every stored ai_category is null or one of
\* the eight lower-case standard categories
C3_AiCategoryStandard ==
    \A id \in Ids :
        Exists(id) => alerts[id].ai_category \in StandardCategories \cup {NULL}

InitCategorize ==
    /\ cz_in \in [category : HealthCategory, agent : BOOLEAN, raw : RawResults]
    /\ cz_out = NoValue
    /\ StoreInit /\ agent = FALSE /\ JiraIdle /\ SlackIdle /\ InsIdle

CallCategorize ==
    /\ cz_out = NoValue
    /\ cz_out' = categorize_health_alert(cz_in.category, cz_in.agent, cz_in.raw)
    /\ UNCHANGED <<cz_in, storeVars, agent, db_session, jiraVars, slackVars, insVars>>

NextCategorize == CallCategorize

SpecCategorize == InitCategorize /\ [][NextCategorize]_vars

\* C4: whatever the remote call does, categorize_health_alert returns (it never raises)
\* a categorization with four non-empty fields and a priority among low, medium, high,
\* critical
C4_AlwaysValidCategorization ==
    cz_out # NoValue =>
        /\ cz_out # Raised
        /\ cz_out.category # <<>> /\ cz_out.summary # <<>> /\ cz_out.recommendation # <<>>
        /\ cz_out.priority \in PRIORITIES

\* the part of C4 the code keeps: the call returns a categorization, never an exception
CategorizeNeverRaises == cz_out # Raised

(***************************************************************************)
(* Ticket notifier: create_jira_ticket_for_alert and JIRAService           *)
(***************************************************************************)
MaxCalls == 2

\* Python truthiness of an optional string
Truthy(text) == text # NULL /\ text # <<>>

\* JIRAService.__init__: the basic-auth header exists when email and token are set
auth_header(env) == env.email /\ env.api_token

\* the mutant of _validate_credentials: the check is skipped
validate_credentials_skipped(env) == TRUE

\* JIRAService._validate_credentials
_validate_credentials(env) == env.api_token /\ env.domain /\ env.email

\* the mutant of HasTicket: the idempotency check is dropped
HasTicketDropped(row) == FALSE

\* "if db_alert.jira_ticket_id:" the alert already has a ticket
HasTicket(row) == Truthy(row.jira_ticket_id)

\* what the tracker can answer to the POST: a 2xx body with the new key, a 2xx body
\* without a key, a non-2xx status, or no answer (connection error, timeout)
JiraResponses == {"created", "no_key", "http_error", "network_error"}

\* the key of the n-th ticket the tracker creates
TicketKeyText(n) == <<"SF-", ToString(n)>>

RECURSIVE Sum(_, _)
\* the sum of f over the set S
Sum(f, S) ==
    IF S = {} THEN 0
    ELSE LET x == CHOOSE y \in S : TRUE IN f[x] + Sum(f, S \ {x})

\* JIRAService.create_ticket from the answer on: the ticket key, or None
create_ticket_result(response, key) ==
    IF response = "created" THEN key ELSE NULL

\* a finished call as the log keeps it
\* the record of a finished call: its result, its remote calls, the calls finished on
\* the alert when it began, and whether it found the alert
CallRecord(result, posts, began, found) ==
    [result |-> result, posts |-> posts, began |-> began, found |-> found]

JiraDone(id, result, cause) ==
    [op |-> "jira", pc |-> "done", id |-> id, loaded |-> NoRow, queue |-> <<>>,
     count |-> 0, result |-> result, cause |-> cause, committed |-> 0]

\* the mutant of jira_enter: the alert that is not found is not turned away
jira_enter_unchecked(id) ==
    IF Exists(id) /\ HasTicket(alerts[id]) THEN JiraDone(id, "true", "has_ticket")
    ELSE IF Exists(id) /\ ~SchemaValid(alerts[id]) THEN JiraDone(id, "false", "invalid_row")
    ELSE IF ~_validate_credentials(jira_env) \/ ~auth_header(jira_env)
         THEN JiraDone(id, "false", "no_credentials")
    ELSE Await("jira", id, alerts[id], <<>>, Len(jira_log[id]))

\* create_jira_ticket_for_alert up to the await of the POST: the query and the checks
\* that return without a remote call; count keeps the number of calls finished on the
\* alert when this one began
jira_enter(id) ==
    IF ~Exists(id) THEN JiraDone(id, "false", "not_found")
    ELSE IF HasTicket(alerts[id]) THEN JiraDone(id, "true", "has_ticket")
    ELSE IF ~SchemaValid(alerts[id]) THEN JiraDone(id, "false", "invalid_row")
    ELSE IF ~_validate_credentials(jira_env) \/ ~auth_header(jira_env)
         THEN JiraDone(id, "false", "no_credentials")
    ELSE Await("jira", id, alerts[id], <<>>, Len(jira_log[id]))

create_jira_ticket_start(r, id) ==
    /\ FreeSlot(r)
    /\ jira_calls < MaxCalls
    /\ jira_calls' = jira_calls + 1
    /\ req' = [req EXCEPT ![r] = jira_enter(id)]
    /\ jira_log' =
        IF jira_enter(id).pc = "done"
        THEN [jira_log EXCEPT ![id] =
                Append(@, CallRecord(jira_enter(id).result, 0, Len(jira_log[id]),
                                      jira_enter(id).cause # "not_found"))]
        ELSE jira_log
    /\ UNCHANGED <<alerts, next_id, jira_env, jira_created>>

\* the mutant of Persisted: a commit that fails on a stored row keeps the key all the same
PersistedDespiteFailure(ticket_key, exists, db_ok) == Truthy(ticket_key) /\ exists

\* "if not ticket_key: return False", then db_alert.jira_ticket_id = ticket_key and
\* db.commit(): the key is stored when there is one, the row is still there and the
\* database accepts the commit
Persisted(ticket_key, exists, db_ok) == Truthy(ticket_key) /\ exists /\ db_ok

\* create_jira_ticket_for_alert from the answer of the tracker on: without a key return
\* False; with one assign jira_ticket_id and commit; a failing commit (the row is gone,
\* the database fails) is rolled back and returns False
create_jira_ticket_finish(r, response, db_ok) ==
    /\ req[r].pc = "await" /\ req[r].op = "jira"
    /\ LET id == req[r].id
           loaded == req[r].loaded
           created == IF response = "created" THEN 1 ELSE 0
           number == Sum(jira_created, Ids) + created
           ticket_key == create_ticket_result(response, TicketKeyText(number))
           new == [loaded EXCEPT !.jira_ticket_id = ticket_key]
           stored == Persisted(ticket_key, Exists(id), db_ok)
           result == IF stored THEN "true" ELSE "false"
           cause == IF Truthy(ticket_key) /\ ~stored THEN "commit_failed" ELSE response
       IN  /\ jira_created' = [jira_created EXCEPT ![id] = @ + created]
           /\ alerts' = IF stored
                        THEN [alerts EXCEPT ![id] = Flush(alerts[id], loaded, new)]
                        ELSE alerts
           /\ req' = [req EXCEPT ![r] = JiraDone(id, result, cause)]
           /\ jira_log' = [jira_log EXCEPT ![id] =
                            Append(@, CallRecord(result, 1, req[r].count, TRUE))]
    /\ UNCHANGED <<next_id, jira_env, jira_calls>>

\* the environments the ticket notifier is started in: everything set, nothing set,
\* and each single variable missing
JiraEnvs ==
    {[api_token |-> TRUE, domain |-> TRUE, email |-> TRUE],
     [api_token |-> FALSE, domain |-> FALSE, email |-> FALSE],
     [api_token |-> FALSE, domain |-> TRUE, email |-> TRUE],
     [api_token |-> TRUE, domain |-> FALSE, email |-> TRUE],
     [api_token |-> TRUE, domain |-> TRUE, email |-> FALSE]}

Init ==
    /\ StoreInit /\ CzIdle /\ agent = FALSE /\ SlackIdle /\ InsIdle
    /\ jira_env \in JiraEnvs
    /\ jira_created = [id \in Ids |-> 0]
    /\ jira_log = [id \in Ids |-> <<>>]
    /\ jira_calls = 0

Next ==
    \/ \E c \in CreateCategories : create_alert(c) /\ UNCHANGED <<req, agent, db_session, czVars, jiraVars, slackVars, insVars>>
    \/ \E id \in Ids : delete_alert(id) /\ UNCHANGED <<req, agent, db_session, czVars, jiraVars, slackVars, insVars>>
    \/ \E r \in Requests, id \in Ids :
            create_jira_ticket_start(r, id) /\ UNCHANGED <<agent, db_session, czVars, slackVars, insVars>>
    \/ \E r \in Requests, response \in JiraResponses, db_ok \in BOOLEAN :
            create_jira_ticket_finish(r, response, db_ok) /\ UNCHANGED <<agent, db_session, czVars, slackVars, insVars>>
    \/ \E r \in Requests :
            Return(r) /\ UNCHANGED <<alerts, next_id, agent, db_session, czVars, jiraVars, slackVars, insVars>>

Spec == Init /\ [][Next]_vars

\* two calls of create_jira_ticket_for_alert on the alert, the second begun after the
\* first had returned and the next to finish after it
Successive(id, i) ==
    /\ i \in 1..(Len(jira_log[id]) - 1)
    /\ jira_log[id][i + 1].began = i

C2_AtMostOneTicketPerAlert ==
    \A id \in Ids : jira_created[id] <= 1

\* the causes of failure C10 names, told from the inputs of the call
CredentialsMissing == ~(jira_env.api_token /\ jira_env.domain /\ jira_env.email)
RemoteFailures == {"no_key", "http_error", "network_error"}

\* C10: a call that fails for missing credentials or for the tracker's answer (non-2xx,
\* no answer, no key) returns False and leaves every stored alert as it was
C10_FailureChangesNothing ==
    [][\A r \in Requests :
        /\ (/\ req[r].pc = "idle" /\ req'[r].op = "jira"
            /\ Exists(req'[r].id) /\ ~Truthy(alerts[req'[r].id].jira_ticket_id)
            /\ CredentialsMissing)
           => (req'[r].pc = "done" /\ req'[r].result = "false" /\ alerts' = alerts
               /\ jira_created' = jira_created)
        /\ (/\ req[r].pc = "await" /\ req[r].op = "jira" /\ req'[r].pc = "done"
            /\ req'[r].cause \in RemoteFailures)
           => (req'[r].result = "false" /\ alerts' = alerts)]_vars

\* calls have failed for missing credentials and for a tracker error, the alert is
\* still stored without a ticket
C10_Witness ==
    \E r \in Requests :
        /\ req[r].pc = "done" /\ req[r].op = "jira" /\ req[r].result = "false"
        /\ req[r].cause \in RemoteFailures \cup {"no_credentials"}
        /\ Exists(req[r].id) /\ alerts[req[r].id].jira_ticket_id = NULL

(***************************************************************************)
(* The chat notifier (services/slack_service.py)                           *)
(***************************************************************************)
MaxNotify == 2

\* HealthAlertUpdate bodies with the fields they set (model_dump(exclude_unset=True)):
\* ai_priority is an Optional[PriorityLevel], slack_alert_sent a bool
UpdatePatches ==
    {[ai_priority |-> p] : p \in PRIORITIES \cup {NULL}}
        \cup {[slack_alert_sent |-> b] : b \in BOOLEAN}

\* the row with every field of the body set on it
Patched(row, patch) ==
    [c \in Columns |-> IF c \in DOMAIN patch THEN patch[c] ELSE row[c]]

\* update_alert: every field of the body is set on the row, then committed
update_alert(id, patch) ==
    /\ Exists(id)
    /\ alerts' = [alerts EXCEPT ![id] = Flush(@, @, Patched(@, patch))]
    /\ UNCHANGED next_id

\* what the chat service answers to chat.postMessage
SlackResponses == {"ok", "not_ok", "http_error", "network_error"}

NotSent == [result |-> FALSE, posts |-> 0]

\* send_slack_message: the result and the number of requests posted
send_slack_message(key_set, response) ==
    IF ~key_set THEN NotSent
    ELSE [result |-> response = "ok", posts |-> 1]

BelowThresholdNever(alert) == FALSE

\* alert.ai_priority not in [PriorityLevel.HIGH, PriorityLevel.CRITICAL]
BelowThreshold(alert) == alert.ai_priority \notin {S_high, S_critical}

\* send_alert_notification
send_alert_notification(alert, key_set, response) ==
    IF BelowThreshold(alert) THEN NotSent
    ELSE IF alert.slack_alert_sent THEN NotSent
    ELSE send_slack_message(key_set, response)

\* a caller reads the alert (get_alert_by_id validates the row into a HealthAlert)
\* and hands it to send_alert_notification; nothing is written back to the row
notify(id, response) ==
    /\ slack_calls < MaxNotify
    /\ Exists(id) /\ SchemaValid(alerts[id])
    /\ LET alert == alerts[id]
           out == send_alert_notification(alert, slack_key, response)
       IN  /\ slack_delivered' = [slack_delivered EXCEPT ![id] = @ + (IF out.result THEN 1 ELSE 0)]
           /\ slack_log' = [id |-> id, ai_priority |-> alert.ai_priority,
                            slack_alert_sent |-> alert.slack_alert_sent,
                            result |-> out.result, posts |-> out.posts]
    /\ slack_calls' = slack_calls + 1
    /\ UNCHANGED <<slack_key, alerts, next_id>>

InitSlack ==
    /\ StoreInit /\ CzIdle /\ agent = FALSE /\ JiraIdle /\ InsIdle
    /\ slack_key \in BOOLEAN
    /\ slack_delivered = [id \in Ids |-> 0]
    /\ slack_log = NoValue
    /\ slack_calls = 0

NextSlack ==
    \/ create_alert("security") /\ UNCHANGED <<req, agent, db_session, czVars, jiraVars, slackVars, insVars>>
    \/ \E id \in Ids : delete_alert(id) /\ UNCHANGED <<req, agent, db_session, czVars, jiraVars, slackVars, insVars>>
    \/ \E id \in Ids, patch \in UpdatePatches :
            update_alert(id, patch) /\ UNCHANGED <<req, agent, db_session, czVars, jiraVars, slackVars, insVars>>
    \/ \E id \in Ids, response \in SlackResponses :
            notify(id, response) /\ UNCHANGED <<req, agent, db_session, czVars, jiraVars, insVars>>

SpecSlack == InitSlack /\ [][NextSlack]_vars

Notified == slack_log # NoValue
Eligible == slack_log.ai_priority \in {S_high, S_critical} /\ slack_log.slack_alert_sent = FALSE

\* C6 (as stated): send_alert_notification returns False and posts nothing for an alert
\* whose ai_priority is not high or critical or whose slack_alert_sent is true, and
\* posts exactly once for every alert with ai_priority high or critical and
\* slack_alert_sent false.
C6_GateThenExactlyOnePost ==
    Notified =>
        /\ ~Eligible => (slack_log.result = FALSE /\ slack_log.posts = 0)
        /\ Eligible => slack_log.posts = 1

\* C6 (amended): an ineligible alert gets False and no post; an eligible alert gets
\* exactly one post when SLACK_API_KEY is set, and False with no post when it is not.
C6_GateThenOnePostIfKeySet ==
    Notified =>
        /\ ~Eligible => (slack_log.result = FALSE /\ slack_log.posts = 0)
        /\ (Eligible /\ slack_key) => slack_log.posts = 1
        /\ (Eligible /\ ~slack_key) => (slack_log.result = FALSE /\ slack_log.posts = 0)

\* an eligible alert was notified with the key set and the message was accepted
C6_Witness ==
    Notified /\ Eligible /\ slack_key /\ slack_log.result = TRUE /\ slack_log.posts = 1

\* C7: after a send_alert_notification call succeeds for an alert, slack_alert_sent is
\* true on that alert's stored row, so that later attempts send nothing.
C7_SentFlagPersisted ==
    [][(slack_calls' = slack_calls + 1 /\ slack_log'.result = TRUE)
            => alerts'[slack_log'.id].slack_alert_sent = TRUE]_vars

(***************************************************************************)
(* The insights aggregator (services/heroku_insights_service.py)           *)
(***************************************************************************)
MaxInsightCalls == 2
MaxClock == 2

TimeRanges == {"day", "week"}

\* seconds elapsed at clock value t
Seconds(t) == t * 450

\* An answer text is a sequence of tokens: "{" and "}" are the braces, the other tokens
\* hold no brace: "m" the four members the insights need (alert_pattern,
\* potential_issue, suggested_action, system_health_summary), "k" another key with its
\* colon,
\* "[1]" a JSON list, "5" a JSON number, "txt" prose.
A_object == <<"{", "m", "}">>
A_nested == <<"{", "k", "{", "m", "}", "}">>
A_prose_object == <<"txt", "{", "m", "}", "txt">>
A_two_objects == <<"{", "m", "}", "txt", "{", "m", "}">>
A_reversed == <<"}", "txt", "{">>
A_unclosed == <<"txt", "{", "m">>
A_prose == <<"txt">>
A_list == <<"[1]">>
A_number == <<"5">>

\* the error classes the call can meet
ExceptionClasses ==
    {"JSONDecodeError", "TypeError", "AttributeError", "UnicodeDecodeError",
     "ContentTypeError", "ClientConnectorError", "TimeoutError"}

Throw(class) == [exc |-> class]
Throws(x) == "exc" \in DOMAIN x

\* except json.JSONDecodeError
CaughtDecodeError(x) == Throws(x) /\ x.exc = "JSONDecodeError"

CaughtOnlyDecodeErrors(x) == Throws(x) /\ x.exc = "JSONDecodeError"

\* except Exception
CaughtException(x) == Throws(x) /\ x.exc \in ExceptionClasses

\* the index after the JSON value that starts at token i, 0 when there is none
RECURSIVE ValueEnd(_, _)
ValueEnd(toks, i) ==
    IF i > Len(toks) THEN 0
    ELSE IF toks[i] \in {"[1]", "5"} THEN i + 1
    ELSE IF toks[i] # "{" \/ i + 1 > Len(toks) THEN 0
    ELSE IF toks[i + 1] = "}" THEN i + 2
    ELSE IF toks[i + 1] = "m"
         THEN IF i + 2 <= Len(toks) /\ toks[i + 2] = "}" THEN i + 3 ELSE 0
    ELSE IF toks[i + 1] = "k"
         THEN LET e == ValueEnd(toks, i + 2)
              IN  IF e # 0 /\ e <= Len(toks) /\ toks[e] = "}" THEN e + 1 ELSE 0
    ELSE 0

\* the keys of the insights payload besides its metadata
InsightKeys == {"alert_pattern", "potential_issue", "suggested_action", "system_health_summary"}

\* the metadata keys of the payload
MetadataKeys == {"generated_at", "time_range", "is_fallback"}

\* the keys of the object the text holds at its top level
TopLevelKeys(toks) ==
    IF toks[1] # "{" THEN {}
    ELSE IF toks[2] = "m" THEN InsightKeys
    ELSE IF toks[2] = "k" THEN {"k"}
    ELSE {}

\* json.loads: the type of the value the whole text holds (and the keys of an object),
\* or JSONDecodeError
json_loads(toks) ==
    IF toks # <<>> /\ ValueEnd(toks, 1) = Len(toks) + 1
    THEN [type |-> IF toks[1] = "{" THEN "dict" ELSE IF toks[1] = "[1]" THEN "list" ELSE "int",
          keys |-> TopLevelKeys(toks)]
    ELSE Throw("JSONDecodeError")

\* str.find and str.rfind, counting from 0, -1 when absent
find(toks, t) ==
    IF \E i \in DOMAIN toks : toks[i] = t
    THEN Min({i \in DOMAIN toks : toks[i] = t}) - 1 ELSE -1

rfind(toks, t) ==
    IF \E i \in DOMAIN toks : toks[i] = t
    THEN Max({i \in DOMAIN toks : toks[i] = t}) - 1 ELSE -1

\* _get_fallback_insights_with_error
FallbackWithError(error_message, t) ==
    [keys |-> InsightKeys \cup MetadataKeys,
     potential_issue |-> error_message, generated_at |-> t,
     time_range |-> "week", is_fallback |-> TRUE]

\* _get_fallback_insights
Fallback(t) == FallbackWithError("temporarily unavailable", t)

\* insights_data[...] = ...: the metadata set on the parsed value
WithMetadata(insights_data, time_range, t) ==
    IF insights_data.type # "dict" THEN Throw("TypeError")
    ELSE [keys |-> insights_data.keys \cup MetadataKeys,
          potential_issue |-> "from the answer", generated_at |-> t,
          time_range |-> time_range, is_fallback |-> FALSE]

\* the insights extracted from the answer text
ExtractInsights(last_ai_text, time_range, t) ==
    LET whole == json_loads(last_ai_text)
        json_start == find(last_ai_text, "{")
        json_end == rfind(last_ai_text, "}") + 1
        json_content == SubSeq(last_ai_text, json_start + 1, json_end)
        part == json_loads(json_content)
        got == IF last_ai_text = <<>> THEN Fallback(t)
               ELSE IF ~CaughtDecodeError(whole) THEN WithMetadata(whole, time_range, t)
               ELSE IF json_start >= 0 /\ json_end > json_start
                    THEN IF CaughtDecodeError(part) THEN Fallback(t)
                         ELSE WithMetadata(part, time_range, t)
               ELSE Fallback(t)
    IN  IF CaughtException(got) THEN Fallback(t) ELSE got

\* a choice of a completion and the data of an event
Choice(finish_reason, content) ==
    [shape |-> "dict", finish_reason |-> finish_reason, content |-> content]

Completion(object, choices) == [json |-> "dict", object |-> object, choices |-> choices]
InvalidJson == [json |-> "invalid"]
JsonList == [json |-> "list"]
NoData == [json |-> "none"]
Event(event_type, data) == [event |-> event_type, data |-> data]

Answered(content) ==
    Event("message", Completion("chat.completion", <<Choice("stop", content)>>))

\* the loop over data["choices"] of one event
RECURSIVE ScanChoices(_, _)
ScanChoices(choices, final_message) ==
    IF choices = <<>> THEN [final_message |-> final_message]
    ELSE LET choice == Head(choices)
         IN  IF choice.shape # "dict" THEN Throw("AttributeError")
             ELSE IF choice.finish_reason = "stop" /\ choice.content # <<>>
                  THEN [final_message |-> choice.content]
                  ELSE ScanChoices(Tail(choices), final_message)

\* the body of `if event_type == "message" and event_data`
MessageEvent(data, final_message) ==
    IF data.json = "invalid" THEN Throw("JSONDecodeError")
    ELSE IF data.json # "dict" THEN Throw("AttributeError")
    ELSE IF data.object = "chat.completion" /\ data.choices # <<>>
         THEN ScanChoices(data.choices, final_message)
         ELSE [final_message |-> final_message]

\* the mutant of ScanEvents: the first completion message found is kept, not the last
RECURSIVE ScanEventsKeepFirst(_, _)
ScanEventsKeepFirst(events, final_message) ==
    IF events = <<>> THEN [final_message |-> final_message]
    ELSE LET ev == Head(events)
             got == MessageEvent(ev.data, final_message)
         IN  IF ev.event = "message" /\ ev.data.json # "none"
             THEN IF CaughtDecodeError(got) THEN ScanEventsKeepFirst(Tail(events), final_message)
                  ELSE IF Throws(got) THEN got
                  ELSE ScanEventsKeepFirst(Tail(events),
                            IF final_message # <<>> THEN final_message ELSE got.final_message)
             ELSE IF ev.event = "done" THEN [final_message |-> final_message]
             ELSE ScanEventsKeepFirst(Tail(events), final_message)

\* the loop over the event blocks of the stream
RECURSIVE ScanEvents(_, _)
ScanEvents(events, final_message) ==
    IF events = <<>> THEN [final_message |-> final_message]
    ELSE LET ev == Head(events)
             got == MessageEvent(ev.data, final_message)
         IN  IF ev.event = "message" /\ ev.data.json # "none"
             THEN IF CaughtDecodeError(got) THEN ScanEvents(Tail(events), final_message)
                  ELSE IF Throws(got) THEN got
                  ELSE ScanEvents(Tail(events), got.final_message)
             ELSE IF ev.event = "done" THEN [final_message |-> final_message]
             ELSE ScanEvents(Tail(events), final_message)

\* the text/event-stream branch: the final message, "" when there is none
ReadEventStream(body) ==
    IF body.decodes = FALSE THEN Throw("UnicodeDecodeError")
    ELSE ScanEvents(body.events, <<>>)

\* the loop over result.get("choices", []) of a plain JSON body
RECURSIVE FirstContent(_)
FirstContent(choices) ==
    IF choices = <<>> THEN [final_message |-> <<>>]
    ELSE IF Head(choices).shape # "dict" THEN Throw("AttributeError")
    ELSE IF Head(choices).content # <<>> THEN [final_message |-> Head(choices).content]
    ELSE FirstContent(Tail(choices))

\* the plain JSON branch: response.json() and the first content of its choices
ReadJsonBody(content_type, body) ==
    IF content_type # "application/json" THEN Throw("ContentTypeError")
    ELSE IF body.json = "invalid" THEN Throw("JSONDecodeError")
    ELSE IF body.json = "int" THEN Throw("TypeError")
    ELSE IF body.json = "list" THEN [final_message |-> <<>>]
    ELSE FirstContent(body.choices)

using_standard_db == TRUE

\* get_ai_insights: the returned payload (or the error raised) and the remote calls
get_ai_insights(time_range, response, t) ==
    LET text == IF response.content_type = "text/event-stream"
                THEN ReadEventStream(response.body)
                ELSE ReadJsonBody(response.content_type, response.body)
        got == IF response.net # "ok" THEN Throw(response.net)
               ELSE IF response.status # 200 THEN FallbackWithError("not a follower", t)
               ELSE IF CaughtException(text) THEN Fallback(t)
               ELSE IF Throws(text) THEN text
               ELSE ExtractInsights(text.final_message, time_range, t)
    IN  IF ~using_standard_db
        THEN [payload |-> FallbackWithError("standard plan required", t), remote |-> 0]
        ELSE [payload |-> IF CaughtException(got) THEN Fallback(t) ELSE got, remote |-> 1]

\* what the agents endpoint can answer
Failed(net) == [net |-> net, status |-> 0, content_type |-> "none", body |-> NoData]
Rejected(status) == [net |-> "ok", status |-> status, content_type |-> "application/json", body |-> NoData]
Stream(events) ==
    [net |-> "ok", status |-> 200, content_type |-> "text/event-stream",
     body |-> [decodes |-> TRUE, events |-> events]]
Body(content_type, body) ==
    [net |-> "ok", status |-> 200, content_type |-> content_type, body |-> body]

Streams ==
    {<<Answered(a), Event("done", NoData)>> :
        a \in {A_object, A_nested, A_prose_object, A_two_objects, A_reversed,
               A_unclosed, A_prose, A_list, A_number}}
      \cup
    {<<Event("message", InvalidJson), Answered(A_prose_object)>>,
     <<Answered(A_object), Answered(A_list)>>,
     <<Event("done", NoData), Answered(A_object)>>,
     <<Answered(A_object), Event("message", JsonList)>>,
     <<Event("message", Completion("chat.completion", <<Choice("length", A_object)>>))>>,
     <<Event("message", Completion("chat.completion", <<[shape |-> "str"]>>))>>,
     <<Event("message", Completion("chat.completion.chunk", <<Choice("stop", A_object)>>))>>,
     <<Event("ping", NoData)>>,
     <<>>}

InsightResponses ==
    {Failed("ClientConnectorError"), Failed("TimeoutError"), Rejected(401), Rejected(503)}
      \cup {Stream(events) : events \in Streams}
      \cup {[net |-> "ok", status |-> 200, content_type |-> "text/event-stream",
             body |-> [decodes |-> FALSE, events |-> <<>>]]}
      \cup {Body("application/json", Completion("chat.completion", <<Choice("stop", a)>>)) :
                a \in {A_object, A_list, A_prose}}
      \cup {Body("application/json", InvalidJson), Body("application/json", JsonList),
            Body("application/json", [json |-> "int"]),
            Body("text/html", InvalidJson)}

\* one request for insights; the clock value is read where the payload is built
insights(time_range, response) ==
    /\ Len(ins_log) < MaxInsightCalls
    /\ LET out == get_ai_insights(time_range, response, now)
       IN  ins_log' = Append(ins_log,
                [time_range |-> time_range, at |-> now, remote |-> out.remote,
                 raised |-> Throws(out.payload), payload |-> out.payload])
    /\ ins_last' = response
    /\ UNCHANGED <<ins_env, now>>

\* time passes
Tick ==
    /\ now < MaxClock
    /\ now' = now + 1
    /\ UNCHANGED <<ins_env, ins_log, ins_last>>

InitInsights ==
    /\ StoreInit /\ CzIdle /\ agent = FALSE /\ JiraIdle /\ SlackIdle
    /\ ins_env \in [api_key : BOOLEAN, app_name : BOOLEAN]
    /\ now = 0
    /\ ins_log = <<>>
    /\ ins_last = NoValue

NextInsights ==
    \/ \E time_range \in TimeRanges, response \in InsightResponses :
            insights(time_range, response)
                /\ UNCHANGED <<storeVars, agent, db_session, czVars, jiraVars, slackVars>>
    \/ Tick /\ UNCHANGED <<storeVars, agent, db_session, czVars, jiraVars, slackVars>>

SpecInsights == InitInsights /\ [][NextInsights]_vars

\* C5: of two successive get_ai_insights calls with the same time_range less than 900
\* seconds apart, the second makes no remote call and returns the payload of the first.
C5_SecondCallWithinTtlIsCached ==
    \A i \in DOMAIN ins_log :
        (/\ i + 1 \in DOMAIN ins_log
         /\ ins_log[i + 1].time_range = ins_log[i].time_range
         /\ Seconds(ins_log[i + 1].at) - Seconds(ins_log[i].at) < 900)
            => /\ ins_log[i + 1].remote = 0
               /\ ins_log[i + 1].payload = ins_log[i].payload

\* the answer texts a response carries, wherever they stand
Contents(response) ==
    IF response.net # "ok" \/ response.status # 200 THEN {}
    ELSE IF response.content_type = "text/event-stream"
    THEN LET events == {response.body.events[k] : k \in DOMAIN response.body.events}
             dicts == {ev \in events : ev.data.json = "dict"}
             choices == UNION {{ev.data.choices[j] : j \in DOMAIN ev.data.choices} : ev \in dicts}
         IN  {ch.content : ch \in {c \in choices : c.shape = "dict"}}
    ELSE IF response.body.json = "dict"
    THEN {ch.content : ch \in {c \in {response.body.choices[j] : j \in DOMAIN response.body.choices} :
                                    c.shape = "dict"}}
    ELSE {}

\* the failures the claim lists, read off the response
RemoteFailed(response) ==
    \/ response.net # "ok"
    \/ response.status # 200
    \/ response.content_type = "text/event-stream" /\ response.body.decodes = FALSE
    \/ response.content_type # "text/event-stream" /\ response.body.json = "invalid"
    \/ response.content_type = "text/html"
    \/ \A text \in Contents(response) : "{" \notin {text[i] : i \in DOMAIN text}
    \/ \A text \in Contents(response) : text \in {A_list, A_number}

LastCall == ins_log[Len(ins_log)]

\* C8: get_ai_insights never raises, and on a non-200 response, a connection error or
\* timeout, an unparseable stream or body, an answer without a JSON object or an answer
\* whose JSON is not an object it returns the fallback payload with is_fallback true.
C8_FailuresReturnFallback ==
    ins_log # <<>> =>
        /\ \A i \in DOMAIN ins_log : ~ins_log[i].raised
        /\ RemoteFailed(ins_last) => LastCall.payload.is_fallback = TRUE

\* a connection error was met and answered with the fallback payload
C8_Witness ==
    /\ ins_log # <<>>
    /\ ins_last.net = "ClientConnectorError"
    /\ ~LastCall.raised
    /\ LastCall.payload.is_fallback = TRUE

\* C9: with no inference key or no app name configured, get_ai_insights returns the
\* fallback payload and makes no remote call.
C9_NoRemoteCallWithoutConfiguration ==
    (ins_log # <<>> /\ (~ins_env.api_key \/ ~ins_env.app_name)) =>
        \A i \in DOMAIN ins_log :
            ins_log[i].remote = 0 /\ ins_log[i].payload.is_fallback = TRUE

(***************************************************************************)
(* The sweep over a store that requests update and delete                  *)
(***************************************************************************)
\* a PUT body that sets is_resolved to null: HealthAlertUpdate takes it (Optional[bool])
\* and the column is nullable
NullFlagPatches == {[is_resolved |-> NULL]}

NextSweep ==
    \/ \E c \in CreateCategories : create_alert(c) /\ UNCHANGED <<req, agent, db_session, czVars, jiraVars, slackVars, insVars>>
    \/ \E id \in Ids : delete_alert(id) /\ UNCHANGED <<req, agent, db_session, czVars, jiraVars, slackVars, insVars>>
    \/ \E id \in Ids, patch \in NullFlagPatches :
            update_alert(id, patch) /\ UNCHANGED <<req, agent, db_session, czVars, jiraVars, slackVars, insVars>>
    \/ \E r \in Requests :
            categorize_all_uncategorized_start(r) /\ UNCHANGED <<agent, db_session, czVars, jiraVars, slackVars, insVars>>
    \/ \E r \in Requests, raw \in StoreReplies :
            categorize_all_uncategorized_step(r, raw) /\ UNCHANGED <<agent, db_session, czVars, jiraVars, slackVars, insVars>>
    \/ \E r \in Requests :
            Return(r) /\ UNCHANGED <<alerts, next_id, agent, db_session, czVars, jiraVars, slackVars, insVars>>

SpecSweep == InitCat /\ [][NextSweep]_vars

SweepReturned(r) == req[r].op = "sweep" /\ req[r].pc = "done"

\* C14: a sweep that met a failure on one alert has still processed every later
\* alert of its list: when it returns, no alert after the failing one is left
\* uncategorized and unprocessed.
C14_SweepGoesOnAfterFailure ==
    \A r \in Requests :
        SweepReturned(r) =>
            \A i \in 2..Len(req[r].queue) :
                ~(Exists(req[r].queue[i]) /\ alerts[req[r].queue[i]].ai_category = NULL)

\* C15: the value categorize_all_uncategorized returns is the number of alerts whose
\* categorization it committed.
C15_CountIsCommitted ==
    \A r \in Requests : SweepReturned(r) => req[r].count = req[r].committed

(***************************************************************************)
(* Labelled free-text replies through categorize_alert                     *)
(***************************************************************************)
\* the labelled reply that names the taxonomy category User Experience with the
\* priority critical
UserExperienceReply == AgentRunResult(Labelled(S_User_Experience, S_critical))

\* categorize_alert on request r receives the labelled reply for an alert that is
\* still stored as it was loaded, with the remote model configured
LabelledReplyArrives(r) ==
    /\ agent
    /\ Exists(req[r].id)
    /\ alerts[req[r].id] = req[r].loaded
    /\ categorize_alert_finish(r, UserExperienceReply)

\* C20: a labelled free-text reply with "**Category:** C" and "**Priority:** P", C a
\* taxonomy category and P a priority, is stored as ai_category = lower-case C and
\* ai_priority = P; checked on C = User Experience, P = critical
C20_LabelledReplyIsStored ==
    [][\A r \in Requests :
            LabelledReplyArrives(r) =>
                /\ alerts'[req[r].id].ai_category = Lower(S_User_Experience)
                /\ alerts'[req[r].id].ai_priority = S_critical]_vars

\* the part of C20 the code keeps: the priority of the labelled reply is stored
C20_PriorityIsStored ==
    [][\A r \in Requests :
            LabelledReplyArrives(r) => alerts'[req[r].id].ai_priority = S_critical]_vars

(***************************************************************************)
(* The alert store behind the routes: create, read, update, delete, resolve *)
(***************************************************************************)
MaxSkip == 1
MaxLimit == 2
MaxStoreClock == 1

\* a call is made on a free slot once the answer of the call that finished before it
\* has been read (the calls of the store have no await: each runs to its end before
\* the next one starts)
Serving(r) == FreeSlot(r) /\ \A q \in Requests : req[q].pc # "done"

\* the bodies POST /alerts/ is called with: one without raw_data, one with
CreateInputs ==
    {AlertData("security"),
     [AlertData("optimizer") EXCEPT !.raw_data = <<"raw_data">>]}

\* the bodies PUT /alerts/{id} is called with (HealthAlertUpdate, only the fields set):
\* a new title, is_resolved false, a ticket key, a null ticket key, a null title
StorePatches ==
    {[title |-> <<"retitled">>],
     [is_resolved |-> PyFalse],
     [jira_ticket_id |-> <<"SF-9">>],
     [jira_ticket_id |-> NULL],
     [title |-> NULL]}

\* a finished call that hands a row back
Answer(op, id, result, row) == [Done(op, id, result, 0) EXCEPT !.loaded = row]

\* the query of get_alert_by_id: the row with the id, or None
QueryFirst(table, id) == IF id \in Ids THEN table[id] ELSE NoRow

\* get_alert_by_id: None when there is no row, else model_validate of the row
get_alert_by_id(table, id) ==
    IF QueryFirst(table, id) = NoRow THEN Answer("read", id, "not_found", NoRow)
    ELSE IF ~SchemaValid(QueryFirst(table, id)) THEN Answer("read", id, "raised", NoRow)
    ELSE Answer("read", id, "ok", QueryFirst(table, id))

\* the body sets a NOT NULL column to null: the UPDATE raises IntegrityError
NotNullViolated(patch) ==
    \E c \in DOMAIN patch : c \in NotNullColumns /\ patch[c] = NULL

\* the mutant of Committed: every statement is its own transaction, so a commit that
\* fails keeps the title it had already written
CommittedInPart(current, new, db_ok) ==
    IF db_ok
    THEN Flush(current, current, new)
    ELSE [current EXCEPT !.title = IF new.title = NULL THEN @ ELSE new.title]

\* db.commit() of one changed row: the flush and the COMMIT succeed together, or (lost
\* connection, constraint violation) the transaction is rolled back and the row stays
Committed(current, new, db_ok) ==
    IF db_ok THEN Flush(current, current, new) ELSE current

\* the mutant of Deleted: the DELETE has no WHERE clause
DeletedAll(table, id) == [i \in Ids |-> NoRow]

\* db.delete(db_alert) committed
Deleted(table, id) == [table EXCEPT ![id] = NoRow]

\* POST /alerts/: create_alert adds the row, commits, refreshes and validates it; a
\* failing commit stores nothing
POST_alerts(r, alert_data, db_ok) ==
    /\ Serving(r)
    /\ next_id <= MaxAlerts
    /\ IF db_ok
       THEN /\ alerts' = [alerts EXCEPT ![next_id] = NewAlert(alert_data, now)]
            /\ next_id' = next_id + 1
            /\ req' = [req EXCEPT ![r] =
                    Answer("create", next_id, "ok", NewAlert(alert_data, now))]
       ELSE /\ req' = [req EXCEPT ![r] = Answer("create", 0, "raised", NoRow)]
            /\ UNCHANGED <<alerts, next_id>>

\* GET /alerts/{id}
GET_alert(r, id) ==
    /\ Serving(r)
    /\ req' = [req EXCEPT ![r] = get_alert_by_id(alerts, id)]
    /\ UNCHANGED <<alerts, next_id>>

\* the answer of update_alert and mark_alert_resolved after the commit: the refreshed
\* row validated, or the exception of a failed commit or a failed validation
AfterCommit(op, id, row, db_ok) ==
    IF db_ok /\ SchemaValid(row)
    THEN Answer(op, id, "ok", row)
    ELSE Answer(op, id, "raised", NoRow)

\* PUT /alerts/{id}: update_alert sets the fields of the body on the row, commits,
\* refreshes and validates; None when there is no row
PUT_alert(r, id, patch, db_ok) ==
    /\ Serving(r)
    /\ IF ~Exists(id)
       THEN /\ req' = [req EXCEPT ![r] = Answer("update", id, "not_found", NoRow)]
            /\ UNCHANGED alerts
       ELSE LET new == Patched(alerts[id], patch)
                ok == db_ok /\ ~NotNullViolated(patch)
                row == Committed(alerts[id], new, ok)
            IN  /\ alerts' = [alerts EXCEPT ![id] = row]
                /\ req' = [req EXCEPT ![r] = AfterCommit("update", id, row, ok)]
    /\ UNCHANGED next_id

\* mark_alert_resolved: is_resolved is set, committed, refreshed and validated; None
\* when there is no row
mark_alert_resolved(r, id, resolved, db_ok) ==
    /\ Serving(r)
    /\ IF ~Exists(id)
       THEN /\ req' = [req EXCEPT ![r] = Answer("resolve", id, "not_found", NoRow)]
            /\ UNCHANGED alerts
       ELSE LET new == [alerts[id] EXCEPT !.is_resolved = resolved]
                row == Committed(alerts[id], new, db_ok)
            IN  /\ alerts' = [alerts EXCEPT ![id] = row]
                /\ req' = [req EXCEPT ![r] = AfterCommit("resolve", id, row, db_ok)]
    /\ UNCHANGED next_id

\* DELETE /alerts/{id}: delete_alert returns False when there is no row, else deletes
\* and commits and returns True; a failing commit deletes nothing
DELETE_alert(r, id, db_ok) ==
    /\ Serving(r)
    /\ IF ~Exists(id)
       THEN /\ req' = [req EXCEPT ![r] = Answer("delete", id, "False", NoRow)]
            /\ UNCHANGED alerts
       ELSE IF db_ok
            THEN /\ alerts' = Deleted(alerts, id)
                 /\ req' = [req EXCEPT ![r] = Answer("delete", id, "True", NoRow)]
            ELSE /\ req' = [req EXCEPT ![r] = Answer("delete", id, "raised", NoRow)]
                 /\ UNCHANGED alerts
    /\ UNCHANGED next_id

\* the stored ids in ascending order, the order the rows were inserted in
RECURSIVE Ascending(_)
Ascending(S) == IF S = {} THEN <<>> ELSE <<Min(S)>> \o Ascending(S \ {Min(S)})

\* the orders a SELECT without ORDER BY can return the rows in: the rows that were
\* never rewritten come in the order they were inserted in, a row that an UPDATE
\* rewrote (a new row version in the heap) comes anywhere
ScanOrders(table) ==
    LET S == {id \in Ids : table[id] # NoRow}
        n == Cardinality(S)
    IN  {order \in [1..n -> S] :
            /\ \A i, j \in 1..n : i # j => order[i] # order[j]
            /\ \A i, j \in 1..n :
                    (/\ i < j
                     /\ table[order[i]].updated_at = NULL
                     /\ table[order[j]].updated_at = NULL) => order[i] < order[j]}

\* .offset(skip).limit(limit) of the rows in the order the query returns them
Page(order, skip, limit) ==
    [i \in 1..Max({0, Min({limit, Len(order) - skip})}) |-> order[skip + i]]

\* GET /alerts/: get_alerts returns the page of the unordered query, each row
\* validated; the ids of the page are kept in queue
GET_alerts(r, skip, limit, order) ==
    /\ Serving(r)
    /\ LET page == Page(order, skip, limit)
       IN  req' = [req EXCEPT ![r] =
                IF \A i \in 1..Len(page) : SchemaValid(alerts[page[i]])
                THEN [Done("list", 0, "ok", skip) EXCEPT !.queue = page, !.committed = limit]
                ELSE Done("list", 0, "raised", 0)]
    /\ UNCHANGED <<alerts, next_id>>

\* time passes between two requests
StoreTick ==
    /\ now < MaxStoreClock
    /\ now' = now + 1

InitStore ==
    /\ StoreInit /\ CzIdle /\ JiraIdle /\ SlackIdle /\ InsIdle
    /\ agent = FALSE

NextStore ==
    \/ \E r \in Requests, alert_data \in CreateInputs, db_ok \in BOOLEAN :
            POST_alerts(r, alert_data, db_ok)
                /\ UNCHANGED <<agent, db_session, czVars, jiraVars, slackVars, insVars>>
    \/ \E r \in Requests, id \in Ids :
            GET_alert(r, id) /\ UNCHANGED <<agent, db_session, czVars, jiraVars, slackVars, insVars>>
    \/ \E r \in Requests, id \in Ids, patch \in StorePatches, db_ok \in BOOLEAN :
            PUT_alert(r, id, patch, db_ok)
                /\ UNCHANGED <<agent, db_session, czVars, jiraVars, slackVars, insVars>>
    \/ \E r \in Requests, id \in Ids, db_ok \in BOOLEAN :
            mark_alert_resolved(r, id, PyTrue, db_ok)
                /\ UNCHANGED <<agent, db_session, czVars, jiraVars, slackVars, insVars>>
    \/ \E r \in Requests, id \in Ids, db_ok \in BOOLEAN :
            DELETE_alert(r, id, db_ok)
                /\ UNCHANGED <<agent, db_session, czVars, jiraVars, slackVars, insVars>>
    \/ \E r \in Requests, skip \in 0..MaxSkip, limit \in 1..MaxLimit :
            \E order \in ScanOrders(alerts) :
                GET_alerts(r, skip, limit, order)
                    /\ UNCHANGED <<agent, db_session, czVars, jiraVars, slackVars, insVars>>
    \/ StoreTick
            /\ UNCHANGED <<storeVars, agent, db_session, czVars, jiraVars, slackVars,
                           ins_env, ins_log, ins_last>>
    \/ \E r \in Requests :
            Return(r) /\ UNCHANGED <<alerts, next_id, agent, db_session, czVars, jiraVars, slackVars, insVars>>

SpecStore == InitStore /\ [][NextStore]_vars

StoreAnswered(r, op, result) ==
    req[r].pc = "done" /\ req[r].op = op /\ req[r].result = result

\* the stored alert is changed by the step
Rewritten(id) == alerts[id] # NoRow /\ alerts'[id] # alerts[id]

\* C11: an alert created with create_alert is read back by get_alert_by_id on the
\* assigned id with the same title, description, category, source_system and raw_data,
\* created_at set, updated_at null, is_resolved false, the ai_* fields and
\* jira_ticket_id null and slack_alert_sent false; and what is read back changes only
\* with an update, a resolve or a delete addressed to the alert
C11_CreateThenReadBack ==
    [][/\ \A r \in Requests, alert_data \in CreateInputs :
            POST_alerts(r, alert_data, TRUE) =>
                LET got == get_alert_by_id(alerts', req'[r].id)
                IN  /\ req'[r].result = "ok" /\ got.result = "ok"
                    /\ got.loaded = req'[r].loaded
                    /\ got.loaded.title = alert_data.title
                    /\ got.loaded.description = alert_data.description
                    /\ got.loaded.category = alert_data.category
                    /\ got.loaded.source_system = alert_data.source_system
                    /\ got.loaded.raw_data = alert_data.raw_data
                    /\ got.loaded.created_at # NULL
                    /\ got.loaded.updated_at = NULL
                    /\ got.loaded.is_resolved = PyFalse
                    /\ got.loaded.ai_category = NULL /\ got.loaded.ai_priority = NULL
                    /\ got.loaded.ai_summary = NULL /\ got.loaded.ai_recommendation = NULL
                    /\ got.loaded.jira_ticket_id = NULL
                    /\ got.loaded.slack_alert_sent = FALSE
       /\ \A id \in Ids :
            Rewritten(id) =>
                \E r \in Requests :
                    /\ req'[r].pc = "done" /\ req'[r].id = id
                    /\ req'[r].op \in {"update", "resolve", "delete"}]_vars

\* an alert with raw_data was created and is read back as create_alert returned it
C11_Witness ==
    \E r \in Requests :
        /\ StoreAnswered(r, "create", "ok")
        /\ req[r].loaded.raw_data # NULL
        /\ get_alert_by_id(alerts, req[r].id).loaded = req[r].loaded

\* the time of the update is later than the alert's previous updated_at
ClockMoved(row) == row.updated_at = NULL \/ TimeOf(row.updated_at) < now

\* what C12 says of the fields other than updated_at: the fields of the body take the
\* values of the body, every other field and every other alert keeps its value
OnlyBodyFieldsChange(id, patch) ==
    /\ \A c \in Columns \ {"updated_at"} :
            alerts'[id][c] = IF c \in DOMAIN patch THEN patch[c] ELSE alerts[id][c]
    /\ \A other \in Ids \ {id} : alerts'[other] = alerts[other]

\* C12: update_alert on a stored alert changes exactly the fields of the body and
\* leaves every other field as it was, and updated_at after the update is strictly
\* greater than before (checked when the clock has moved since the previous update);
\* on an absent id it returns None and changes nothing
C12_UpdateChangesExactlyTheFields ==
    [][\A r \in Requests, id \in Ids, patch \in StorePatches, db_ok \in BOOLEAN :
            PUT_alert(r, id, patch, db_ok) =>
                IF ~Exists(id)
                THEN req'[r].result = "not_found" /\ alerts' = alerts
                ELSE req'[r].result = "ok" =>
                        /\ OnlyBodyFieldsChange(id, patch)
                        /\ ClockMoved(alerts[id]) =>
                                /\ alerts'[id].updated_at # NULL
                                /\ alerts[id].updated_at # NULL =>
                                        TimeOf(alerts'[id].updated_at)
                                            > TimeOf(alerts[id].updated_at)]_vars

\* the part of C12 the code keeps: everything but the move of updated_at
C12_FrameKept ==
    [][\A r \in Requests, id \in Ids, patch \in StorePatches, db_ok \in BOOLEAN :
            PUT_alert(r, id, patch, db_ok) =>
                IF ~Exists(id)
                THEN req'[r].result = "not_found" /\ alerts' = alerts
                ELSE req'[r].result = "ok" => OnlyBodyFieldsChange(id, patch)]_vars

\* C13: after delete_alert returned True, get_alert_by_id on the id finds nothing and
\* no other alert is changed; on an absent id (never created, or deleted before)
\* delete_alert returns False, raises nothing and changes nothing
C13_DeleteRemovesOnlyTheAlert ==
    [][\A r \in Requests, id \in Ids, db_ok \in BOOLEAN :
            DELETE_alert(r, id, db_ok) =>
                /\ req'[r].result = "True" =>
                        /\ get_alert_by_id(alerts', id).result = "not_found"
                        /\ \A other \in Ids \ {id} : alerts'[other] = alerts[other]
                /\ ~Exists(id) => req'[r].result = "False" /\ alerts' = alerts]_vars

\* an alert was deleted while another one is stored
C13_Witness ==
    \E r \in Requests, other \in Ids :
        /\ StoreAnswered(r, "delete", "True")
        /\ get_alert_by_id(alerts, req[r].id).result = "not_found"
        /\ other # req[r].id /\ Exists(other)

\* C16: once the jira_ticket_id of an alert is non-null, no operation changes or clears
\* it until the alert is deleted
C16_TicketKeyAssignedOnce ==
    [][\A id \in Ids :
            (/\ Exists(id)
             /\ alerts[id].jira_ticket_id # NULL
             /\ alerts'[id] # NoRow) =>
                alerts'[id].jira_ticket_id = alerts[id].jira_ticket_id]_vars

\* C17: get_alerts(skip, limit) returns the alerts at positions skip+1 .. skip+limit
\* of the stored alerts in insertion order (ascending id)
C17_PageInInsertionOrder ==
    \A r \in Requests :
        StoreAnswered(r, "list", "ok") =>
            req[r].queue =
                Page(Ascending({id \in Ids : Exists(id)}), req[r].count, req[r].committed)

(***************************************************************************)
(* The mutating operations as transactions                                 *)
(***************************************************************************)
\* the answer of the remote model while the transactions are exercised (no agent is
\* configured there, so categorize_health_alert falls back without a call)
NoReply == [kind |-> "timeout"]

\* the bodies of PUT /alerts/{id} here: one the database accepts, one it rejects
TxnPatches == {[title |-> <<"retitled">>], [title |-> NULL]}

NextTxn ==
    \/ \E r \in Requests, db_ok \in BOOLEAN :
            POST_alerts(r, AlertData("security"), db_ok)
                /\ UNCHANGED <<agent, db_session, czVars, jiraVars, slackVars, insVars>>
    \/ \E r \in Requests, id \in Ids, patch \in TxnPatches, db_ok \in BOOLEAN :
            PUT_alert(r, id, patch, db_ok)
                /\ UNCHANGED <<agent, db_session, czVars, jiraVars, slackVars, insVars>>
    \/ \E r \in Requests, id \in Ids, db_ok \in BOOLEAN :
            mark_alert_resolved(r, id, PyTrue, db_ok)
                /\ UNCHANGED <<agent, db_session, czVars, jiraVars, slackVars, insVars>>
    \/ \E r \in Requests, id \in Ids, db_ok \in BOOLEAN :
            DELETE_alert(r, id, db_ok)
                /\ UNCHANGED <<agent, db_session, czVars, jiraVars, slackVars, insVars>>
    \/ \E r \in Requests, id \in Ids :
            Serving(r) /\ categorize_alert_start(r, id)
                /\ UNCHANGED <<agent, db_session, czVars, jiraVars, slackVars, insVars>>
    \/ \E r \in Requests :
            categorize_alert_finish(r, NoReply)
                /\ UNCHANGED <<agent, db_session, czVars, jiraVars, slackVars, insVars>>
    \/ \E r \in Requests :
            Return(r) /\ UNCHANGED <<alerts, next_id, agent, db_session, czVars, jiraVars, slackVars, insVars>>

SpecTxn == InitStore /\ [][NextTxn]_vars

\* the store after the whole effect of an update of alert id to the row new
WholeUpdate(id, loaded, new) == [alerts EXCEPT ![id] = Flush(@, loaded, new)]

\* the row categorize_alert assigns on request r
Categorized(r) ==
    LET ai == AiResult[req[r].loaded.category, agent, NoReply]
    IN  WithAi(req[r].loaded, NormalizeCategory(ai.category), ai)

\* C18: each of create_alert, update_alert, delete_alert, mark_alert_resolved and
\* categorize_alert leaves the store with the whole effect of the operation or with
\* none of it, and with none of it when its commit failed
C18_WholeEffectOrNone ==
    [][/\ \A r \in Requests, db_ok \in BOOLEAN :
            POST_alerts(r, AlertData("security"), db_ok) =>
                /\ alerts' \in {alerts, [alerts EXCEPT ![next_id] =
                                            NewAlert(AlertData("security"), now)]}
                /\ ~db_ok => alerts' = alerts /\ req'[r].result = "raised"
       /\ \A r \in Requests, id \in Ids, patch \in TxnPatches, db_ok \in BOOLEAN :
            (PUT_alert(r, id, patch, db_ok) /\ Exists(id)) =>
                /\ alerts' \in {alerts, WholeUpdate(id, alerts[id], Patched(alerts[id], patch))}
                /\ (~db_ok \/ NotNullViolated(patch)) =>
                        alerts' = alerts /\ req'[r].result = "raised"
       /\ \A r \in Requests, id \in Ids, db_ok \in BOOLEAN :
            (mark_alert_resolved(r, id, PyTrue, db_ok) /\ Exists(id)) =>
                /\ alerts' \in {alerts, WholeUpdate(id, alerts[id],
                                            [alerts[id] EXCEPT !.is_resolved = PyTrue])}
                /\ ~db_ok => alerts' = alerts /\ req'[r].result = "raised"
       /\ \A r \in Requests, id \in Ids, db_ok \in BOOLEAN :
            (DELETE_alert(r, id, db_ok) /\ Exists(id)) =>
                /\ alerts' \in {alerts, [alerts EXCEPT ![id] = NoRow]}
                /\ ~db_ok => alerts' = alerts /\ req'[r].result = "raised"
       /\ \A r \in Requests :
            categorize_alert_finish(r, NoReply) =>
                IF Exists(req[r].id)
                THEN alerts' = WholeUpdate(req[r].id, req[r].loaded, Categorized(r))
                ELSE alerts' = alerts /\ req'[r].result = "raised"]_vars

\* an update whose commit failed has answered with its exception and the alert is
\* stored with the title it had
C18_Witness ==
    \E r \in Requests :
        /\ StoreAnswered(r, "update", "raised")
        /\ Exists(req[r].id)
        /\ alerts[req[r].id].title = <<"title">>

(***************************************************************************)
(* get_db: one session per request, rolled back on an exception, closed    *)
(* in the finally                                                          *)
(***************************************************************************)
\* the mutant of rollback: the except branch does not roll back
rollback_skipped(pending) == pending

\* db.rollback(): no transaction is pending afterwards
rollback(pending) == FALSE

\* what resumes the generator after the yield: the handler returned, the handler
\* raised an Exception (HTTPException included), or the generator is closed or
\* cancelled (GeneratorExit, CancelledError: not an Exception)
Resumptions == {"return", "Exception", "BaseException"}

\* db = SessionLocal(); yield db
get_db_open(r) ==
    /\ db_session[r].pc = "none"
    /\ db_session' = [db_session EXCEPT ![r] = [NoSession EXCEPT !.pc = "yielded"]]

\* the handler queries or changes objects through the session: a transaction begins
handler_query(r) ==
    /\ db_session[r].pc = "yielded"
    /\ ~db_session[r].pending
    /\ db_session' = [db_session EXCEPT ![r].pending = TRUE]

\* the handler commits (or rolls back itself, as categorize_alert does)
handler_commit(r) ==
    /\ db_session[r].pc = "yielded"
    /\ db_session[r].pending
    /\ db_session' = [db_session EXCEPT ![r].pending = FALSE]

\* the handler is over and the generator is resumed: an Exception enters the except
\* branch, everything else goes to the finally
handler_ends(r, how) ==
    /\ db_session[r].pc = "yielded"
    /\ db_session' = [db_session EXCEPT
            ![r].pc = IF how = "Exception" THEN "except" ELSE "finally",
            ![r].thrown = how]

\* except Exception: db.rollback(); raise
get_db_except(r) ==
    /\ db_session[r].pc = "except"
    /\ db_session' = [db_session EXCEPT
            ![r].pc = "finally",
            ![r].rolled_back = db_session[r].pending /\ ~rollback(db_session[r].pending),
            ![r].pending = rollback(@)]

\* finally: db.close(), which ends whatever transaction is left
get_db_finally(r) ==
    /\ db_session[r].pc = "finally"
    /\ db_session' = [db_session EXCEPT
            ![r].pc = "closed",
            ![r].closes = @ + 1,
            ![r].pending_at_close = db_session[r].pending,
            ![r].pending = FALSE]

\* the generator is exhausted; the next request gets a session of its own
get_db_over(r) ==
    /\ db_session[r].pc = "closed"
    /\ db_session' = [db_session EXCEPT ![r] = NoSession]

HandlerEnds(r) == \E how \in Resumptions : handler_ends(r, how)

InitSession == InitStore

NextSession ==
    \/ \E r \in Requests : get_db_open(r) /\ UNCHANGED <<storeVars, agent, czVars, jiraVars, slackVars, insVars>>
    \/ \E r \in Requests : handler_query(r) /\ UNCHANGED <<storeVars, agent, czVars, jiraVars, slackVars, insVars>>
    \/ \E r \in Requests : handler_commit(r) /\ UNCHANGED <<storeVars, agent, czVars, jiraVars, slackVars, insVars>>
    \/ \E r \in Requests : HandlerEnds(r) /\ UNCHANGED <<storeVars, agent, czVars, jiraVars, slackVars, insVars>>
    \/ \E r \in Requests : get_db_except(r) /\ UNCHANGED <<storeVars, agent, czVars, jiraVars, slackVars, insVars>>
    \/ \E r \in Requests : get_db_finally(r) /\ UNCHANGED <<storeVars, agent, czVars, jiraVars, slackVars, insVars>>
    \/ \E r \in Requests : get_db_over(r) /\ UNCHANGED <<storeVars, agent, czVars, jiraVars, slackVars, insVars>>

SpecSession == InitSession /\ [][NextSession]_vars

\* every handler ends (its remote calls carry timeouts), and once the generator is
\* resumed its except branch and its finally run to their end
SessionFairness ==
    \A r \in Requests :
        /\ WF_vars(HandlerEnds(r) /\ UNCHANGED <<storeVars, agent, czVars, jiraVars, slackVars, insVars>>)
        /\ WF_vars(get_db_except(r) /\ UNCHANGED <<storeVars, agent, czVars, jiraVars, slackVars, insVars>>)
        /\ WF_vars(get_db_finally(r) /\ UNCHANGED <<storeVars, agent, czVars, jiraVars, slackVars, insVars>>)

SpecSessionFair == SpecSession /\ SessionFairness

\* C19: every session get_db acquired for a request is eventually closed, and closed
\* once, whether the handler returned or raised; when the request failed with an
\* exception, the pending transaction was rolled back before the close
C19_SessionClosedOnce ==
    /\ [](\A r \in Requests :
            /\ db_session[r].closes <= 1
            /\ db_session[r].pc = "closed" => db_session[r].closes = 1
            /\ (db_session[r].pc = "closed" /\ db_session[r].thrown = "Exception") =>
                    ~db_session[r].pending_at_close)
    /\ \A r \in Requests :
            (db_session[r].pc = "yielded") ~> (db_session[r].pc = "closed")

\* a session whose handler raised with a transaction pending was rolled back and is
\* closed
C19_Witness ==
    \E r \in Requests :
        /\ db_session[r].pc = "closed"
        /\ db_session[r].thrown = "Exception"
        /\ db_session[r].rolled_back
        /\ db_session[r].closes = 1

(***************************************************************************)
(* The timeout of the remote categorization call                           *)
(***************************************************************************)
\* the call was made with an agent configured and the remote call timed out
TimedOut == cz_out # NoValue /\ cz_in.agent /\ cz_in.raw.kind = "timeout"

\* what categorize_health_alert returns for the same alert when no agent is configured
Unavailable == categorize_health_alert(cz_in.category, FALSE, cz_in.raw)

C22_RealInsightsAreComplete ==
    \A i \in DOMAIN ins_log :
        (~ins_log[i].raised /\ ins_log[i].payload.is_fallback = FALSE) =>
            /\ InsightKeys \subseteq ins_log[i].payload.keys
            /\ {"generated_at", "time_range"} \subseteq ins_log[i].payload.keys
            /\ ins_log[i].payload.time_range = ins_log[i].time_range

\* the part of C22 the code keeps: the metadata of a payload that is not a fallback
C22_MetadataAttached ==
    \A i \in DOMAIN ins_log :
        (~ins_log[i].raised /\ ins_log[i].payload.is_fallback = FALSE) =>
            /\ MetadataKeys \subseteq ins_log[i].payload.keys
            /\ ins_log[i].payload.time_range = ins_log[i].time_range
            /\ ins_log[i].payload.generated_at = ins_log[i].at

(***************************************************************************)
(* The ticket that was created but not recorded                            *)
(***************************************************************************)
\* the tracker created the ticket for request r and the commit of its key fails on the
\* alert, which is still stored
CommitFailsAfterCreate(r) ==
    /\ Exists(req[r].id)
    /\ create_jira_ticket_finish(r, "created", FALSE)

\* C24: when persisting the ticket id fails after the remote ticket was created,
\* create_jira_ticket_for_alert rolls back and returns False, the alert's
\* jira_ticket_id stays as it was (null, unless another call stored a key meanwhile)
\* although a ticket exists upstream, and a later call for the alert issues another
\* remote create
C24_LostTicketIsCreatedAgain ==
    [][\A r \in Requests :
            CommitFailsAfterCreate(r) =>
                /\ req'[r].result = "false"
                /\ alerts' = alerts
                /\ jira_created'[req[r].id] = jira_created[req[r].id] + 1
                /\ ~HasTicket(alerts[req[r].id]) =>
                        /\ alerts'[req[r].id].jira_ticket_id = NULL
                        /\ jira_enter(req[r].id)'.pc = "await"]_vars

\* a call returned False after its ticket was created, and the alert has no ticket id
C24_Witness ==
    \E r \in Requests :
        /\ req[r].pc = "done" /\ req[r].op = "jira" /\ req[r].cause = "commit_failed"
        /\ req[r].result = "false"
        /\ Exists(req[r].id)
        /\ ~HasTicket(alerts[req[r].id])
        /\ jira_created[req[r].id] >= 1

(***************************************************************************)
(* Operations on an alert id that is not in the store                      *)
(***************************************************************************)
InitAbsent ==
    /\ StoreInit /\ CzIdle /\ SlackIdle /\ InsIdle
    /\ agent = FALSE
    /\ jira_env = [api_token |-> TRUE, domain |-> TRUE, email |-> TRUE]
    /\ jira_created = [id \in Ids |-> 0]
    /\ jira_log = [id \in Ids |-> <<>>]
    /\ jira_calls = 0

NextAbsent ==
    \/ \E r \in Requests :
            POST_alerts(r, AlertData("security"), TRUE)
                /\ UNCHANGED <<agent, db_session, czVars, jiraVars, slackVars, insVars>>
    \/ \E r \in Requests, id \in Ids :
            DELETE_alert(r, id, TRUE)
                /\ UNCHANGED <<agent, db_session, czVars, jiraVars, slackVars, insVars>>
    \/ \E r \in Requests, id \in Ids :
            GET_alert(r, id)
                /\ UNCHANGED <<agent, db_session, czVars, jiraVars, slackVars, insVars>>
    \/ \E r \in Requests, id \in Ids :
            PUT_alert(r, id, [title |-> <<"retitled">>], TRUE)
                /\ UNCHANGED <<agent, db_session, czVars, jiraVars, slackVars, insVars>>
    \/ \E r \in Requests, id \in Ids :
            mark_alert_resolved(r, id, PyTrue, TRUE)
                /\ UNCHANGED <<agent, db_session, czVars, jiraVars, slackVars, insVars>>
    \/ \E r \in Requests, id \in Ids :
            Serving(r) /\ categorize_alert_start(r, id)
                /\ UNCHANGED <<agent, db_session, czVars, jiraVars, slackVars, insVars>>
    \/ \E r \in Requests :
            categorize_alert_finish(r, NoReply)
                /\ UNCHANGED <<agent, db_session, czVars, jiraVars, slackVars, insVars>>
    \/ \E r \in Requests, id \in Ids :
            Serving(r) /\ create_jira_ticket_start(r, id)
                /\ UNCHANGED <<agent, db_session, czVars, slackVars, insVars>>
    \/ \E r \in Requests :
            create_jira_ticket_finish(r, "created", TRUE)
                /\ UNCHANGED <<agent, db_session, czVars, slackVars, insVars>>
    \/ \E r \in Requests :
            Return(r) /\ UNCHANGED <<alerts, next_id, agent, db_session, czVars, jiraVars, slackVars, insVars>>

SpecAbsent == InitAbsent /\ [][NextAbsent]_vars

\* request r has answered at once, with the result, leaving every stored alert and the
\* tracker as they were: nothing was awaited, so no remote call was made
TurnedAway(r, result) ==
    /\ req'[r].pc = "done"
    /\ req'[r].result = result
    /\ alerts' = alerts
    /\ jira_created' = jira_created

\* C23: for an alert id that is not in the store update_alert, mark_alert_resolved,
\* categorize_alert and get_alert_by_id return the not-found result without raising,
\* without a remote call and without changing a stored alert, and
\* create_jira_ticket_for_alert returns False in the same way
C23_AbsentIdIsTurnedAway ==
    [][\A r \in Requests, id \in Ids :
            ~Exists(id) =>
                /\ PUT_alert(r, id, [title |-> <<"retitled">>], TRUE)
                        => TurnedAway(r, "not_found")
                /\ mark_alert_resolved(r, id, PyTrue, TRUE) => TurnedAway(r, "not_found")
                /\ GET_alert(r, id) => TurnedAway(r, "not_found")
                /\ (Serving(r) /\ categorize_alert_start(r, id)) => TurnedAway(r, "not_found")
                /\ (Serving(r) /\ create_jira_ticket_start(r, id)) =>
                        /\ TurnedAway(r, "false")
                        /\ jira_log'[id][Len(jira_log'[id])].posts = 0]_vars

\* create_jira_ticket_for_alert has returned False for an alert that was deleted, while
\* another alert is stored
C23_Witness ==
    \E r \in Requests, other \in Ids :
        /\ req[r].pc = "done" /\ req[r].op = "jira"
        /\ req[r].result = "false" /\ req[r].cause = "not_found"
        /\ req[r].id < next_id
        /\ Exists(other)

(***************************************************************************)
(* The answer text of a streamed insights response                         *)
(***************************************************************************)
\* the positions of the events that precede the first "done" event
BeforeDone(events) ==
    {i \in DOMAIN events : \A j \in 1..i : events[j].event # "done"}

\* the choice is a completion that stopped and has content
Stopped(choice) ==
    choice.shape = "dict" /\ choice.finish_reason = "stop" /\ choice.content # <<>>

\* the positions of the choices of the data that stopped with content
StoppedChoices(data) == {j \in DOMAIN data.choices : Stopped(data.choices[j])}

\* the event is a "message" event carrying a chat completion with such a choice
Terminal(ev) ==
    /\ ev.event = "message"
    /\ ev.data.json = "dict"
    /\ ev.data.object = "chat.completion"
    /\ StoppedChoices(ev.data) # {}

\* the content of the terminal completion message of the stream, "" when there is none
TerminalMessage(events) ==
    LET S == {i \in BeforeDone(events) : Terminal(events[i])}
    IN  IF S = {} THEN <<>>
        ELSE LET data == events[Max(S)].data
             IN  data.choices[Min(StoppedChoices(data))].content

\* the data of the "message" event is JSON, but not of the shape of a completion: it is
\* not an object, or a choice that is not an object stands before any that stopped
Misshapen(ev) ==
    /\ ev.event = "message"
    /\ ev.data.json \notin {"none", "invalid"}
    /\ \/ ev.data.json # "dict"
       \/ /\ ev.data.object = "chat.completion"
          /\ \E j \in DOMAIN ev.data.choices :
                /\ ev.data.choices[j].shape # "dict"
                /\ \A k \in 1..j : ~Stopped(ev.data.choices[k])

\* the last call received a 200 event stream that decodes
StreamAnswered ==
    /\ ins_log # <<>>
    /\ ins_last.net = "ok" /\ ins_last.status = 200
    /\ ins_last.content_type = "text/event-stream"
    /\ ins_last.body.decodes

\* the payload get_ai_insights makes of the answer text
PayloadOf(text, call) ==
    IF text = <<>> THEN Fallback(call.at) ELSE ExtractInsights(text, call.time_range, call.at)

C26_EveryListedAlertIsCalled ==
    \A r \in Requests : SweepReturned(r) => req[r].queue = <<>>

(***************************************************************************)
(* Stored alerts stay readable                                             *)
(***************************************************************************)
\* C27: after any sequence of create, categorize_alert and categorize_all_uncategorized
\* every stored alert is readable: its ai_priority is null or one of low, medium, high,
\* critical and its category is one of the seven raw categories, so that
\* SchemaHealthAlert.model_validate accepts the row.
C27_StoredAlertsStayReadable ==
    \A id \in Ids : Exists(id) => SchemaValid(alerts[id])

(***************************************************************************)
(* Dashboard statistics                                                    *)
(***************************************************************************)
\* db.query(DBHealthAlert): the ids of the stored rows
Stored == {id \in Ids : Exists(id)}

\* the total of the counts of a dictionary
RECURSIVE SumOfCounts(_)
SumOfCounts(counts) ==
    IF DOMAIN counts = {} THEN 0
    ELSE LET k == CHOOSE k \in DOMAIN counts : TRUE
         IN  counts[k] + SumOfCounts([j \in DOMAIN counts \ {k} |-> counts[j]])

\* the keys of by_priority that name a priority, and the values they count
PriorityKeys == <<"critical", "high", "medium", "low">>
PriorityValues == <<S_critical, S_high, S_medium, S_low>>

\* get_dashboard_stats on the table as it is: every count is query.filter(...).count()
get_dashboard_stats ==
    LET ai_category_results ==
            {alerts[id].ai_category : id \in {i \in Stored : alerts[i].ai_category # NULL}}
    IN  [total_alerts |-> Cardinality(Stored),
         unresolved_alerts |->
            Cardinality({id \in Stored : alerts[id].is_resolved = PyFalse}),
         by_priority |->
            [k \in {PriorityKeys[i] : i \in 1..4} \cup {"uncategorized"} |->
                IF k = "uncategorized"
                THEN Cardinality({id \in Stored : alerts[id].ai_priority = NULL})
                ELSE LET i == CHOOSE i \in 1..4 : PriorityKeys[i] = k
                     IN  Cardinality({id \in Stored :
                                        alerts[id].ai_priority = PriorityValues[i]})],
         by_category |->
            [category \in HealthCategory |->
                Cardinality({id \in Stored : alerts[id].category = category})],
         by_ai_category |->
            [category \in ai_category_results |->
                Cardinality({id \in Stored : alerts[id].ai_category = category})]]

\* the number of stored alerts with a non-null ai_category
AiCategorized ==
    Cardinality({id \in Ids : Exists(id) /\ alerts[id].ai_category # NULL})

\* C28: get_dashboard_stats partitions the alerts: the five by_priority buckets sum to
\* total_alerts, the seven by_category buckets sum to total_alerts, the by_ai_category
\* counts sum to the number of alerts with a non-null ai_category, and
\* unresolved_alerts is at most total_alerts.
C28_StatsPartitionTheAlerts ==
    LET stats == get_dashboard_stats
    IN  /\ SumOfCounts(stats.by_priority) = stats.total_alerts
        /\ SumOfCounts(stats.by_category) = stats.total_alerts
        /\ SumOfCounts(stats.by_ai_category) = AiCategorized
        /\ stats.unresolved_alerts <= stats.total_alerts

\* the parts of C28 that do not count priorities
C28_OtherBucketsPartition ==
    LET stats == get_dashboard_stats
    IN  /\ SumOfCounts(stats.by_category) = stats.total_alerts
        /\ SumOfCounts(stats.by_ai_category) = AiCategorized
        /\ stats.unresolved_alerts <= stats.total_alerts

(***************************************************************************)
(* An alert deleted while its categorization call is in flight             *)
(***************************************************************************)
\* request r awaits the remote call for an alert that has been deleted meanwhile
DeletedInFlight(r) ==
    /\ req[r].pc = "await"
    /\ req[r].op \in {"categorize", "sweep"}
    /\ ~Exists(req[r].id)

AiFields(row) == <<row.ai_category, row.ai_priority, row.ai_summary, row.ai_recommendation>>

\* C30: create-and-categorize is two transactions: the alert is committed before the
\* categorization starts; when the categorization step fails the request fails and the
\* created alert stays stored with all four ai_* attributes null; when it succeeds the
\* alert has all four ai_* attributes non-null.
C30_FailedCategorizationLeavesAlertUncategorized ==
    [][\A r \in Requests :
        /\ (req[r].pc = "idle" /\ req'[r].pc = "await" /\ req'[r].op = "categorize") =>
                alerts'[req'[r].id] = req'[r].loaded
        /\ (/\ req[r].pc = "await" /\ req[r].op = "categorize"
            /\ AiFields(req[r].loaded) = <<NULL, NULL, NULL, NULL>>
            /\ req'[r].pc = "done"
            /\ alerts'[req[r].id] # NoRow) =>
                /\ req'[r].result = "raised" =>
                        AiFields(alerts'[req[r].id]) = <<NULL, NULL, NULL, NULL>>
                /\ req'[r].result = "ok" =>
                        \A i \in 1..4 : AiFields(alerts'[req[r].id])[i] # NULL]_vars

====
